---------------------------- MODULE Spec2Model ----------------------------
(***************************************************************************)
(* kana-dojo: the theme system (theme map cache, custom theme / wallpaper  *)
(* synchronisation, theme application to the DOM), the streak grid, the    *)
(* FAQ section and the selection status bar.                               *)
(*                                                                         *)
(* Strings of the program are TLA+ strings; an optional value (undefined,  *)
(* null) is a sequence of length 0 or 1.                                   *)
(***************************************************************************)
EXTENDS Integers, Sequences, FiniteSets, TLC

VARIABLES
  customThemes,   \* useCustomThemeStore.getState().themes (ids of the templates held)
  wallpapers,     \* useCustomWallpaperStore.getState().wallpapers (ids)
  objectUrls,     \* useCustomWallpaperStore.getState().objectUrls (ids having one)
  themeMap,       \* _themeMap: <<>> (null) or <<m>>, m a function id -> Theme
  aliased,        \* _themeMap is the map object the store listeners closed over
  loaded,         \* _customThemesLoaded
  subscriptions,  \* number of listeners registered on each store
  registry,       \* wallpapers module: custom wallpapers registered, id -> descriptor
  rootStyle,      \* document.documentElement.style: property -> value ("" unset)
  dataTheme,      \* the root's data-theme attribute ("" unset)
  bodyStyle,      \* document.body.style background properties
  glassMode,      \* usePreferencesStore glass mode
  call,           \* the last operation: what was called, with what, and its result
  removedThemes,  \* history: custom themes removed from their store and not added back
  today,          \* the current local calendar day (days since 1970-01-01)
  visits,         \* the persisted visit dates (a set of date strings)
  zoneWest,       \* the local time zone is behind UTC
  period,         \* the period StreakGrid was last rendered for
  grid,           \* what StreakGrid last rendered: <<>> or the week columns
  stats,          \* what StreakStats last rendered: <<>> or <<the three cards>>
  fullWeek,       \* the last call of getFullWeekDays: its argument and its result
  faq,            \* the FAQ component: its props, its state and what it rendered
  contentType,        \* the path without its locale and leading slash
  kanaGroupIndices,   \* useKanaStore: the selected kana group indices, in selection order
  selectedKanjiSets,  \* useKanjiStore: the selected set names, as the array is held
  selectedKanjiObjs,  \* useKanjiStore: the kanji of the selected sets
  selectedVocabSets,  \* useVocabStore: the selected set names, as the array is held
  selectedVocabObjs,  \* useVocabStore: the words of the selected sets
  statusBar,          \* what SelectionStatusBar last rendered
  timedChallenge      \* TimedChallengeKana: <<>> (not mounted) or <<its selectedSets>>

themeVars == <<customThemes, wallpapers, objectUrls, themeMap, aliased,
               loaded, subscriptions, registry, rootStyle, dataTheme,
               bodyStyle, glassMode, call, removedThemes>>

gridVars == <<today, visits, zoneWest, period, grid, stats, fullWeek>>

faqVars == <<faq>>

selectionVars == <<contentType, kanaGroupIndices, selectedKanjiSets, selectedKanjiObjs,
                   selectedVocabSets, selectedVocabObjs, statusBar, timedChallenge>>

vars == <<themeVars, gridVars, faqVars, selectionVars>>

-----------------------------------------------------------------------------
(* String helpers *)

startsWith(s, prefix) ==
  /\ Len(s) >= Len(prefix)
  /\ SubSeq(s, 1, Len(prefix)) = prefix

-----------------------------------------------------------------------------
(* themeColors.ts: pure colour transforms, kept symbolic *)

generateAccentColor(c) == IF c = "" THEN "" ELSE "accent(" \o c \o ")"

generateCardColor(bg, isLight) ==
  IF isLight THEN "card-darker(" \o bg \o ")" ELSE "card-lighter(" \o bg \o ")"

generateBorderColor(bg, isLight) ==
  IF isLight THEN "border-darker(" \o bg \o ")" ELSE "border-lighter(" \o bg \o ")"

-----------------------------------------------------------------------------
(* themeDefinitions.ts: the built-in base palettes, in their groups *)

baseThemeSets ==
  << [name |-> "Base", isLight |-> TRUE,
      themes |-> << [id |-> "light", backgroundColor |-> "bg-light",
                     mainColor |-> "main-light", secondaryColor |-> "sec-light",
                     wallpaperId |-> <<>>] >>],
     [name |-> "Dark", isLight |-> FALSE,
      themes |-> << [id |-> "dark", backgroundColor |-> "bg-dark",
                     mainColor |-> "main-dark", secondaryColor |-> "sec-dark",
                     wallpaperId |-> <<>>] >>],
     [name |-> "Premium (experimental)", isLight |-> FALSE,
      themes |-> << [id |-> "neon-city", backgroundColor |-> "bg-neon",
                     mainColor |-> "main-neon", secondaryColor |-> "sec-neon",
                     wallpaperId |-> <<"neon-city-skyline">>] >>] >>

(* wallpapers.ts: the built-in wallpapers *)
builtinWallpapers ==
  [w \in {"neon-city-skyline"} |->
     [id |-> w, url |-> "/wallpapers/" \o w \o ".avif",
      urlWebp |-> "/wallpapers/" \o w \o ".webp"]]

(* The templates a user can hold in useCustomThemeStore, by id *)
customTemplates ==
  [t \in {"my-theme", "mono"} |->
     IF t = "my-theme"
     THEN [id |-> t, backgroundColor |-> "bg-my", cardColor |-> "card-my",
           borderColor |-> "border-my", mainColor |-> "main-my",
           secondaryColor |-> "sec-my"]
     ELSE [id |-> t, backgroundColor |-> "bg-mono", cardColor |-> "card-mono",
           borderColor |-> "border-mono", mainColor |-> "main-mono",
           secondaryColor |-> ""]]

CustomThemeIds == DOMAIN customTemplates

(* The wallpapers a user can hold in useCustomWallpaperStore, by id *)
customWallpaperFiles ==
  [w \in {"custom-a", "custom-b"} |->
     [id |-> w, name |-> "name-" \o w, thumbnailDataUrl |-> "thumb:" \o w]]

CustomWallpaperIds == DOMAIN customWallpaperFiles

-----------------------------------------------------------------------------
(* Glass / premium helpers *)

PREMIUM_THEME_VARIABLES ==
  [backgroundColor |-> "oklch(0% 0 0 / 0.95)",
   cardColor |-> "oklch(20% 0.01 255 / 0.85)",
   borderColor |-> "oklch(30% 0.01 255 / 0.85)",
   mainColor |-> "oklch(100% 0 0)",
   secondaryColor |-> "oklch(85% 0 0)"]

PREMIUM_THEME_ACCENTS ==
  [mainColorAccent |-> generateAccentColor(PREMIUM_THEME_VARIABLES.mainColor),
   secondaryColorAccent |-> generateAccentColor(PREMIUM_THEME_VARIABLES.secondaryColor)]

getPremiumThemeVariables ==
  [backgroundColor |-> PREMIUM_THEME_VARIABLES.backgroundColor,
   cardColor |-> PREMIUM_THEME_VARIABLES.cardColor,
   borderColor |-> PREMIUM_THEME_VARIABLES.borderColor,
   mainColor |-> PREMIUM_THEME_VARIABLES.mainColor,
   mainColorAccent |-> PREMIUM_THEME_ACCENTS.mainColorAccent,
   secondaryColor |-> PREMIUM_THEME_VARIABLES.secondaryColor,
   secondaryColorAccent |-> PREMIUM_THEME_ACCENTS.secondaryColorAccent]

-----------------------------------------------------------------------------
(* Legacy aliases and theme id resolution *)

legacyThemeAliases == [a \in {"neon-city-glass"} |-> "neon-city"]

resolveThemeId_NoAlias(themeId) == themeId

resolveThemeId(themeId) ==
  IF themeId \in DOMAIN legacyThemeAliases THEN legacyThemeAliases[themeId] ELSE themeId

(* All themes of all groups, as a set of base themes *)
allBaseThemes ==
  UNION { { baseThemeSets[g].themes[i] : i \in 1..Len(baseThemeSets[g].themes) } :
          g \in 1..Len(baseThemeSets) }

getThemeDefaultWallpaperId_NoCustom(themeId) ==
  LET resolvedId == resolveThemeId(themeId)
      hits == { t \in allBaseThemes : t.id = resolvedId /\ t.wallpaperId # <<>> }
  IN IF hits # {} THEN (CHOOSE t \in hits : TRUE).wallpaperId ELSE <<>>

getThemeDefaultWallpaperId(themeId) ==
  LET resolvedId == resolveThemeId(themeId)
      hits == { t \in allBaseThemes : t.id = resolvedId /\ t.wallpaperId # <<>> }
  IN IF startsWith(resolvedId, "custom-") THEN <<resolvedId>>
     ELSE IF hits # {} THEN (CHOOSE t \in hits : TRUE).wallpaperId
     ELSE <<>>

-----------------------------------------------------------------------------
(* Theme building *)

buildTheme(base, isLight) ==
  [id |-> base.id,
   backgroundColor |-> base.backgroundColor,
   cardColor |-> generateCardColor(base.backgroundColor, isLight),
   borderColor |-> generateBorderColor(base.backgroundColor, isLight),
   mainColor |-> base.mainColor,
   mainColorAccent |-> generateAccentColor(base.mainColor),
   secondaryColor |-> base.secondaryColor,
   secondaryColorAccent |-> generateAccentColor(base.secondaryColor)]

buildThemeGroup(baseGroup) ==
  [name |-> baseGroup.name,
   themes |-> [i \in 1..Len(baseGroup.themes) |->
                 buildTheme(baseGroup.themes[i], baseGroup.isLight)]]

(* The first group whose name starts with 'Premium' (Array.prototype.find) *)
premiumGroupIndex ==
  LET hits == { g \in 1..Len(baseThemeSets) : startsWith(baseThemeSets[g].name, "Premium") }
  IN IF hits = {} THEN 0 ELSE CHOOSE g \in hits : \A h \in hits : g <= h

premiumThemeIds ==
  IF premiumGroupIndex = 0 THEN {}
  ELSE { baseThemeSets[premiumGroupIndex].themes[i].id :
           i \in 1..Len(baseThemeSets[premiumGroupIndex].themes) }

isPremiumThemeId_Unresolved(themeId) ==
  premiumThemeIds \cap {themeId} # {} \/ startsWith(themeId, "custom-")

isPremiumThemeId_SetOnly(themeId) ==
  premiumThemeIds \cap {resolveThemeId(themeId)} # {}

isPremiumThemeId(themeId) ==
  LET resolved == resolveThemeId(themeId)
  IN resolved \in premiumThemeIds \/ startsWith(resolved, "custom-")

getModifiedCardColor(themeId, cardColor) ==
  IF isPremiumThemeId(themeId) THEN PREMIUM_THEME_VARIABLES.cardColor ELSE cardColor

getModifiedBorderColor(themeId, borderColor) ==
  IF isPremiumThemeId(themeId) THEN PREMIUM_THEME_VARIABLES.borderColor ELSE borderColor

themeSets == [g \in 1..Len(baseThemeSets) |-> buildThemeGroup(baseThemeSets[g])]

BuiltinIds == { t.id : t \in allBaseThemes }


-----------------------------------------------------------------------------
(* Theme map and lookup.  The module-level cache state is passed around as *)
(* a record s with the fields themeMap, aliased, loaded, subscriptions and *)
(* registry.  The listeners write to the map object that was current when  *)
(* they were registered; once _themeMap no longer refers to that object    *)
(* nothing reads it, and the model keeps no content for it.                *)

cacheState ==
  [themeMap |-> themeMap, aliased |-> aliased,
   loaded |-> loaded, subscriptions |-> subscriptions, registry |-> registry]

(* The entries getThemeMap puts into a fresh map: every built theme by id, *)
(* a later theme of the same id replacing an earlier one                   *)
lastPlace(places) ==
  CHOOSE p \in places : \A q \in places : q[1] < p[1] \/ (q[1] = p[1] /\ q[2] <= p[2])

themeAt(sets, p) == sets[p[1]].themes[p[2]]

placesOf(sets, id) ==
  { p \in UNION { { <<g, i>> : i \in 1..Len(sets[g].themes) } : g \in 1..Len(sets) } :
      themeAt(sets, p).id = id }

builtinThemeMap == [id \in BuiltinIds |-> themeAt(themeSets, lastPlace(placesOf(themeSets, id)))]

getThemeMap_RebuildsEmpty(s) ==
  IF s.themeMap = <<>>
  THEN [s EXCEPT !.themeMap = <<[id \in {} |-> id]>>, !.aliased = FALSE]
  ELSE s

getThemeMap(s) ==
  IF s.themeMap = <<>>
  THEN [s EXCEPT !.themeMap = <<builtinThemeMap>>, !.aliased = FALSE]
  ELSE s

buildThemeFromTemplate(template) ==
  [id |-> template.id,
   backgroundColor |-> template.backgroundColor,
   cardColor |-> template.cardColor,
   borderColor |-> template.borderColor,
   mainColor |-> template.mainColor,
   mainColorAccent |-> generateAccentColor(template.mainColor),
   secondaryColor |-> template.secondaryColor,
   secondaryColorAccent |-> generateAccentColor(template.secondaryColor)]

buildCustomWallpaperTheme(id) ==
  buildThemeFromTemplate(
    [id |-> id,
     backgroundColor |-> "oklch(0% 0 0 / 0.95)",
     cardColor |-> "oklch(0% 0 0 / 0.95)",
     borderColor |-> "oklch(0% 0 0 / 0.95)",
     mainColor |-> "oklch(100% 0 0)",
     secondaryColor |-> "oklch(85% 0 0)"])

templateTheme(id) == buildThemeFromTemplate(customTemplates[id])

(* Map.prototype.set for every key of ks, on the map m *)
setAll(m, ks, value(_)) ==
  [k \in DOMAIN m \cup ks |-> IF k \in ks THEN value(k) ELSE m[k]]

(* Map.prototype.delete for every key of ks *)
deleteAll(m, ks) == [k \in DOMAIN m \ ks |-> m[k]]

(* wallpapers.ts *)
registerCustomWallpaper(reg, w) ==
  [k \in DOMAIN reg \cup {w.id} |-> IF k = w.id THEN w ELSE reg[k]]

unregisterCustomWallpaper(reg, id) == [k \in DOMAIN reg \ {id} |-> reg[k]]

getWallpaperById(reg, id) ==
  IF id \in DOMAIN builtinWallpapers THEN <<builtinWallpapers[id]>>
  ELSE IF id \in DOMAIN reg THEN <<reg[id]>>
  ELSE <<>>

(* Map.prototype.set, for every key of ks, on the map object the listeners *)
(* captured: _themeMap sees it only while it is that same object           *)
setAllCaptured(s, ks, value(_)) ==
  IF s.aliased THEN [s EXCEPT !.themeMap = <<setAll(s.themeMap[1], ks, value)>>] ELSE s

RECURSIVE unregisterEach(_, _)
unregisterEach(reg, ids) ==
  IF ids = {} THEN reg
  ELSE unregisterEach(unregisterCustomWallpaper(reg, CHOOSE x \in ids : TRUE),
                      ids \ {CHOOSE x \in ids : TRUE})

(* The descriptor syncCustomWallpapers registers for the wallpaper wp *)
descriptorOf(wp, urls) ==
  [id |-> wp.id, name |-> wp.name,
   url |-> IF wp.id \in urls THEN "blob:" \o wp.id ELSE wp.thumbnailDataUrl,
   urlWebp |-> ""]

RECURSIVE registerEach(_, _, _)
registerEach(reg, ids, urls) ==
  IF ids = {} THEN reg
  ELSE registerEach(
         registerCustomWallpaper(
           reg, descriptorOf(customWallpaperFiles[CHOOSE x \in ids : TRUE], urls)),
         ids \ {CHOOSE x \in ids : TRUE}, urls)

staleKeys_NotWallpapers(m, wps) == { key \in DOMAIN m : key \notin wps }

(* The keys of the map m that syncCustomWallpapers finds stale *)
staleKeys(m, wps) == { key \in DOMAIN m : startsWith(key, "custom-") /\ key \notin wps }

(* syncCustomWallpapers once the map is there and the stale keys are known *)
syncInto_KeepStale(s, stale, wps, urls) ==
  [s EXCEPT !.themeMap = <<setAll(s.themeMap[1], wps, buildCustomWallpaperTheme)>>,
            !.registry = registerEach(s.registry, wps, urls)]

syncInto(s, stale, wps, urls) ==
  [s EXCEPT !.themeMap = <<setAll(deleteAll(s.themeMap[1], stale), wps,
                                   buildCustomWallpaperTheme)>>,
            !.registry = registerEach(unregisterEach(s.registry, stale), wps, urls)]

syncWithMap(s, wps, urls) == syncInto(s, staleKeys(s.themeMap[1], wps), wps, urls)

syncCustomWallpapers(s, wps, urls) == syncWithMap(getThemeMap(s), wps, urls)

invalidate_Forgotten(s) == s

(* _themeMap = null *)
invalidate(s) == [s EXCEPT !.themeMap = <<>>, !.aliased = FALSE]

(* The listener registered on useCustomThemeStore *)
customThemeListener(s, themes) == invalidate(setAllCaptured(s, themes, templateTheme))

(* The listener registered on useCustomWallpaperStore *)
customWallpaperListener(s, wps, urls) == invalidate(syncCustomWallpapers(s, wps, urls))

(* const themeMap = getThemeMap(): the listeners close over this map object *)
captureThemeMap(s) == [s EXCEPT !.aliased = TRUE]

subscribe(s, store) == [s EXCEPT !.subscriptions[store] = @ + 1]

(* ensureCustomThemesLoaded past its guard *)
loadCustomThemes(s, themes, wps, urls) ==
  subscribe(
    syncCustomWallpapers(
      subscribe(
        setAllCaptured(captureThemeMap(getThemeMap([s EXCEPT !.loaded = TRUE])),
                       themes, templateTheme),
        "themes"),
      wps, urls),
    "wallpapers")

ensureCustomThemesLoaded_WhenNoMap(s, themes, wps, urls) ==
  IF s.loaded /\ s.themeMap # <<>> THEN s ELSE loadCustomThemes(s, themes, wps, urls)

ensureCustomThemesLoaded(s, themes, wps, urls) ==
  IF s.loaded THEN s ELSE loadCustomThemes(s, themes, wps, urls)

(* Map.prototype.get on the current map of s, with the state it is read in *)
getFrom(s, key) ==
  [state |-> s,
   theme |-> IF key \in DOMAIN s.themeMap[1] THEN <<s.themeMap[1][key]>> ELSE <<>>]

(* ensureCustomThemesLoaded(); getThemeMap().get(key) *)
loadAndGet(s, key, themes, wps, urls) ==
  getFrom(getThemeMap(ensureCustomThemesLoaded(s, themes, wps, urls)), key)

getTheme(s, themeId, themes, wps, urls) ==
  loadAndGet(s, resolveThemeId(themeId), themes, wps, urls)

-----------------------------------------------------------------------------
(* Theme application (DOM) *)

CssProperties ==
  {"--background-color", "--card-color", "--border-color", "--main-color",
   "--main-color-accent", "--secondary-color", "--secondary-color-accent"}

presentation ==
  [rootStyle |-> rootStyle, dataTheme |-> dataTheme, bodyStyle |-> bodyStyle,
   glassMode |-> glassMode]

clearedBody ==
  [backgroundImage |-> "", backgroundSize |-> "", backgroundPosition |-> "",
   backgroundRepeat |-> "", backgroundAttachment |-> ""]

backgroundImageOf(wallpaper) ==
  IF wallpaper.urlWebp # ""
  THEN "image-set(url('" \o wallpaper.url \o "') type('image/avif'), url('"
         \o wallpaper.urlWebp \o "') type('image/webp'))"
  ELSE "url('" \o wallpaper.url \o "')"

(* The colours of a theme that is not premium, as applyTheme and           *)
(* applyThemeObject put them on the root                                   *)
ownColors(theme) ==
  [backgroundColor |-> theme.backgroundColor,
   cardColor |-> getModifiedCardColor(theme.id, theme.cardColor),
   borderColor |-> getModifiedBorderColor(theme.id, theme.borderColor),
   mainColor |-> theme.mainColor,
   mainColorAccent |-> theme.mainColorAccent,
   secondaryColor |-> theme.secondaryColor,
   secondaryColorAccent |-> theme.secondaryColorAccent]

effectiveThemeOf_AlwaysOwn(id, theme) == ownColors(theme)

(* const effectiveTheme = isPremium ? getPremiumThemeVariables() : {...} *)
effectiveThemeOf(id, theme) ==
  IF isPremiumThemeId(id) THEN getPremiumThemeVariables ELSE ownColors(theme)

writtenProperties_AlwaysSecondary(effectiveTheme) ==
  {"--background-color", "--card-color", "--border-color", "--main-color",
   "--main-color-accent", "--secondary-color", "--secondary-color-accent"}

(* The properties the root.style.setProperty calls write *)
writtenProperties(effectiveTheme) ==
  {"--background-color", "--card-color", "--border-color", "--main-color",
   "--main-color-accent"}
    \cup (IF effectiveTheme.secondaryColor # ""
          THEN {"--secondary-color", "--secondary-color-accent"} ELSE {})

valueOfProperty(effectiveTheme, prop) ==
  CASE prop = "--background-color" -> effectiveTheme.backgroundColor
    [] prop = "--card-color" -> effectiveTheme.cardColor
    [] prop = "--border-color" -> effectiveTheme.borderColor
    [] prop = "--main-color" -> effectiveTheme.mainColor
    [] prop = "--main-color-accent" -> effectiveTheme.mainColorAccent
    [] prop = "--secondary-color" -> effectiveTheme.secondaryColor
    [] prop = "--secondary-color-accent" -> effectiveTheme.secondaryColorAccent

setProperties_ClearsTheRest(style, effectiveTheme, props) ==
  [prop \in DOMAIN style |->
     IF prop \in props THEN valueOfProperty(effectiveTheme, prop) ELSE ""]

(* The root style after the setProperty calls for the properties in props *)
setProperties(style, effectiveTheme, props) ==
  [prop \in DOMAIN style |->
     IF prop \in props THEN valueOfProperty(effectiveTheme, prop) ELSE style[prop]]

wallpaperBody(wallpaper) ==
  [backgroundImage |-> backgroundImageOf(wallpaper),
   backgroundSize |-> "cover",
   backgroundPosition |-> "center",
   backgroundRepeat |-> "no-repeat",
   backgroundAttachment |-> "fixed"]

setWallpaper_NeverClears(body, wallpaperId, wallpaper) ==
  IF wallpaperId # <<>> /\ wallpaperId[1] # "" /\ wallpaper # <<>>
  THEN wallpaperBody(wallpaper[1])
  ELSE body

(* The wallpaper part of applyTheme: the body style after, wallpaper being *)
(* what getWallpaperById gave for the id                                   *)
setWallpaper(body, wallpaperId, wallpaper) ==
  IF wallpaperId # <<>> /\ wallpaperId[1] # ""
  THEN IF wallpaper # <<>> THEN wallpaperBody(wallpaper[1]) ELSE body
  ELSE clearedBody

wallpaperFor(reg, wallpaperId) ==
  IF wallpaperId # <<>> THEN getWallpaperById(reg, wallpaperId[1]) ELSE <<>>

applyWallpaper(body, reg, wallpaperId) ==
  setWallpaper(body, wallpaperId, wallpaperFor(reg, wallpaperId))

notFound_GlassFirst(s, pres, themeId) ==
  [state |-> s, pres |-> [pres EXCEPT !.glassMode = isPremiumThemeId(themeId)],
   found |-> FALSE, writes |-> {},
   error |-> <<"Theme \"" \o themeId \o "\" not found">>]

(* applyTheme when the map has no entry: console.error and return *)
notFound(s, pres, themeId) ==
  [state |-> s, pres |-> pres, found |-> FALSE, writes |-> {},
   error |-> <<"Theme \"" \o themeId \o "\" not found">>]

applyColors_NoDataTheme(s, pres, resolvedThemeId, effectiveTheme, props) ==
  [state |-> s,
   pres |-> [rootStyle |-> setProperties(pres.rootStyle, effectiveTheme, props),
             dataTheme |-> pres.dataTheme,
             bodyStyle |-> applyWallpaper(pres.bodyStyle, s.registry,
                                          getThemeDefaultWallpaperId(resolvedThemeId)),
             glassMode |-> isPremiumThemeId(resolvedThemeId)],
   found |-> TRUE, writes |-> props, error |-> <<>>]

(* applyTheme once the effective colours are chosen *)
applyColors(s, pres, resolvedThemeId, effectiveTheme, props) ==
  [state |-> s,
   pres |-> [rootStyle |-> setProperties(pres.rootStyle, effectiveTheme, props),
             dataTheme |-> resolvedThemeId,
             bodyStyle |-> applyWallpaper(pres.bodyStyle, s.registry,
                                          getThemeDefaultWallpaperId(resolvedThemeId)),
             glassMode |-> isPremiumThemeId(resolvedThemeId)],
   found |-> TRUE, writes |-> props, error |-> <<>>]

applyEffective(s, pres, resolvedThemeId, effectiveTheme) ==
  applyColors(s, pres, resolvedThemeId, effectiveTheme, writtenProperties(effectiveTheme))

(* applyTheme after the lookup *)
applyFound(got, pres, themeId, resolvedThemeId) ==
  IF got.theme = <<>>
  THEN notFound(got.state, pres, themeId)
  ELSE applyEffective(got.state, pres, resolvedThemeId,
                      effectiveThemeOf(resolvedThemeId, got.theme[1]))

applyResolved(s, pres, themeId, resolvedThemeId, themes, wps, urls) ==
  applyFound(loadAndGet(s, resolvedThemeId, themes, wps, urls), pres, themeId,
             resolvedThemeId)

(* applyTheme(themeId) from cache state s and presentation state pres: the *)
(* cache state and the presentation state after, whether the theme was     *)
(* found, the root properties written and the error logged                 *)
applyTheme(s, pres, themeId, themes, wps, urls) ==
  applyResolved(s, pres, themeId, resolveThemeId(themeId), themes, wps, urls)

(* applyThemeObject once the effective colours are chosen *)
applyObjectColors_WithDataTheme(pres, id, effectiveTheme, props) ==
  [pres |-> [pres EXCEPT !.rootStyle = setProperties(pres.rootStyle, effectiveTheme, props),
                         !.dataTheme = id],
   writes |-> props]

applyObjectColors(pres, id, effectiveTheme, props) ==
  [pres |-> [pres EXCEPT !.rootStyle = setProperties(pres.rootStyle, effectiveTheme, props)],
   writes |-> props]

applyObjectEffective(pres, id, effectiveTheme) ==
  applyObjectColors(pres, id, effectiveTheme, writtenProperties(effectiveTheme))

(* applyThemeObject(theme) from presentation state pres: the presentation  *)
(* state after and the root properties written                             *)
applyThemeObject(pres, theme) ==
  applyObjectEffective(pres, theme.id, effectiveThemeOf(theme.id, theme))

-----------------------------------------------------------------------------
(* Dates.  A Date object is the local calendar day it falls on, counted in *)
(* days since 1970-01-01; a date string is 'YYYY-MM-DD'.                   *)

(* Bounds of the streak grid model *)
StartDay == 19781

MaxTicks == 2

VisitSpan == 3

(* The local calendar fields of a Date: year, month (1..12), day of month *)
civilFromEra(era, doe, yoe) ==
  LET doy == doe - (365 * yoe + yoe \div 4 - yoe \div 100)
      mp == (5 * doy + 2) \div 153
      m == IF mp < 10 THEN mp + 3 ELSE mp - 9
  IN [y |-> yoe + era * 400 + (IF m <= 2 THEN 1 ELSE 0),
      m |-> m,
      d |-> doy - (153 * mp + 2) \div 5 + 1]

civilFromDoe(era, doe) ==
  civilFromEra(era, doe,
               (doe - doe \div 1460 + doe \div 36524 - doe \div 146096) \div 365)

civilOfDays(n) ==
  civilFromDoe((n + 719468) \div 146097, (n + 719468) % 146097)

(* new Date(year, monthIndex, day): monthIndex counts from 0, and both it  *)
(* and day may lie outside their range (day 0 is the last day of the month *)
(* before)                                                                *)
daysFromYm(y, m) ==
  LET yy == IF m <= 2 THEN y - 1 ELSE y
      era == yy \div 400
      yoe == yy - era * 400
      mp == IF m > 2 THEN m - 3 ELSE m + 9
      doy == (153 * mp + 2) \div 5
  IN era * 146097 + (yoe * 365 + yoe \div 4 - yoe \div 100 + doy) - 719468

newDate(year, monthIndex, day) ==
  daysFromYm(year + (monthIndex \div 12), (monthIndex % 12) + 1) + (day - 1)

(* Date.prototype.getDay: 0 is Sunday *)
getDay(n) == (n + 4) % 7

Digits == <<"0", "1", "2", "3", "4", "5", "6", "7", "8", "9">>

pad2(n) == Digits[((n \div 10) % 10) + 1] \o Digits[(n % 10) + 1]

pad4(n) == pad2(n \div 100) \o pad2(n % 100)

formatCivil(c) == pad4(c.y) \o "-" \o pad2(c.m) \o "-" \o pad2(c.d)

(* The days of the calendar years the model runs through, with a week on  *)
(* either side                                                             *)
CalendarDays ==
  (newDate(civilOfDays(StartDay - 1).y, 0, 1) - 7)
    ..(newDate(civilOfDays(StartDay + MaxTicks + VisitSpan).y, 11, 31) + 7)

(* getFullYear, getMonth + 1 and getDate of a Date, worked out once for    *)
(* each day of the calendar                                                *)
civilDates == [n \in CalendarDays |-> civilOfDays(n)]

civilFromDays(n) == civilDates[n]

(* streakCalculations.formatDate: the local date as YYYY-MM-DD, worked out *)
(* once for each day of the calendar                                       *)
formatDates == [n \in CalendarDays |-> formatCivil(civilDates[n])]

formatDate(n) == formatDates[n]

(* The UTF-16 code unit of a character of a date string *)
charCode(c) ==
  IF c = "-" THEN 45
  ELSE 47 + (CHOOSE i \in 1..10 : Digits[i] = c)

(* The JavaScript comparison a > b of two strings, from character i on *)
RECURSIVE greaterFrom(_, _, _)
greaterFrom(a, b, i) ==
  IF i > Len(a) THEN FALSE
  ELSE IF i > Len(b) THEN TRUE
  ELSE IF SubSeq(a, i, i) = SubSeq(b, i, i) THEN greaterFrom(a, b, i + 1)
  ELSE charCode(SubSeq(a, i, i)) > charCode(SubSeq(b, i, i))

stringGreater(a, b) == greaterFrom(a, b, 1)

(* parseInt of a run of digits *)
RECURSIVE parseDigits(_, _)
parseDigits(str, acc) ==
  IF str = "" THEN acc
  ELSE parseDigits(SubSeq(str, 2, Len(str)), 10 * acc + charCode(SubSeq(str, 1, 1)) - 48)

(* The calendar day a date string names, worked out once for each date of *)
(* the calendar                                                            *)
parseYmd(dateStr) ==
  newDate(parseDigits(SubSeq(dateStr, 1, 4), 0),
          parseDigits(SubSeq(dateStr, 6, 7), 0) - 1,
          parseDigits(SubSeq(dateStr, 9, 10), 0))

parsedDates == [dateStr \in { formatDates[n] : n \in CalendarDays } |-> parseYmd(dateStr)]

dayOfString(dateStr) == parsedDates[dateStr]

(* new Date('YYYY-MM-DD'): midnight UTC of that day, which in a zone       *)
(* behind UTC is still the local day before                                *)
parseDate(dateStr, west) == dayOfString(dateStr) - (IF west THEN 1 ELSE 0)

-----------------------------------------------------------------------------
(* streakCalculations.ts *)

hasVisit(vs, date) == date \in vs

(* 0 = Monday, 6 = Sunday *)
getDayOfWeek(dateStr) == (getDay(dayOfString(dateStr)) + 6) % 7

(* The Monday of the week a Date falls in *)
mondayOf(n) == n + (IF getDay(n) = 0 THEN -6 ELSE 1 - getDay(n))

(* The dates from first to last, as the array the loop pushes them to *)
daysFromTo(first, last) ==
  <<>> \o [i \in 1..(last - first + 1) |-> formatDate(first + i - 1)]

getDaysInPeriod(p, now) ==
  CASE p = "week" -> daysFromTo(mondayOf(now), mondayOf(now) + 6)
    [] p = "month" ->
         daysFromTo(newDate(civilFromDays(now).y, civilFromDays(now).m - 1, 1),
                    newDate(civilFromDays(now).y, civilFromDays(now).m, 0))
    [] p = "year" ->
         daysFromTo(newDate(civilFromDays(now).y, 0, 1),
                    newDate(civilFromDays(now).y, 11, 31))

(* The visits that are not after today, as calendar days *)
pastVisitDays(vs, now) ==
  { dayOfString(v) : v \in { u \in vs : ~stringGreater(u, formatDate(now)) } }

(* The length of the run of consecutive days of ds that ends with day n *)
RECURSIVE runEndingAt(_, _)
runEndingAt(ds, n) == IF n \in ds THEN 1 + runEndingAt(ds, n - 1) ELSE 0

calculateCurrentStreak(vs, now) ==
  IF now \in pastVisitDays(vs, now) THEN runEndingAt(pastVisitDays(vs, now), now)
  ELSE runEndingAt(pastVisitDays(vs, now), now - 1)

maxOf(ns) == IF ns = {} THEN 0 ELSE CHOOSE n \in ns : \A k \in ns : k <= n

longestRun(ds) == maxOf({ runEndingAt(ds, n) : n \in ds })

calculateLongestStreak(vs, now) == longestRun(pastVisitDays(vs, now))

calculateTotalVisits(vs) == Cardinality(vs)

-----------------------------------------------------------------------------
(* StreakGrid.  A rendered grid is a sequence of week columns, each of 7   *)
(* slots (Monday first); a slot is <<>> (an empty div) or <<cell>>.        *)

EMPTY_WEEK == [i \in 1..7 |-> <<>>]

isFutureDate_Never(dateStr, now) == FALSE

isFutureDate(dateStr, now) == stringGreater(dateStr, formatDate(now))

DAY_LABELS == <<"Mon", "Tue", "Wed", "Thu", "Fri", "Sat", "Sun">>

(* The class names chosen by clsx and the title, for DayCell and for the   *)
(* cell WeekGrid draws itself                                              *)
cellLook_VisitedFirst(isVisited, isFuture) ==
  IF isVisited THEN "visited" ELSE IF isFuture THEN "future" ELSE "empty"

cellLook(isVisited, isFuture) ==
  IF isFuture THEN "future" ELSE IF isVisited THEN "visited" ELSE "empty"

cellTitle(date, isVisited, isFuture) ==
  date \o (IF isFuture THEN " (future)" ELSE IF isVisited THEN " (check mark)" ELSE "")

DayCell(date, isVisited, isFuture) ==
  [date |-> date, isVisited |-> isVisited, isFuture |-> isFuture,
   look |-> cellLook(isVisited, isFuture),
   title |-> cellTitle(date, isVisited, isFuture)]

(* A slot of a week column rendered: day is <<>> or <<date>> *)
renderSlot(day, vs, now) ==
  IF day = <<>> THEN <<>>
  ELSE <<DayCell(day[1], hasVisit(vs, day[1]), isFutureDate(day[1], now))>>

renderWeeks(weeks, vs, now) ==
  [w \in 1..Len(weeks) |-> [i \in 1..7 |-> renderSlot(weeks[w][i], vs, now)]]

getFullWeekDays(days, west) ==
  IF Len(days) = 0 THEN EMPTY_WEEK
  ELSE [i \in 1..7 |-> <<formatDate(mondayOf(parseDate(days[1], west)) + i - 1)>>]

WeekGrid(vs, days, now, west) == renderWeeks(<<getFullWeekDays(days, west)>>, vs, now)

getFullMonthDays_LastDayLeftOut(now) ==
  daysFromTo(newDate(civilFromDays(now).y, civilFromDays(now).m - 1, 1),
             newDate(civilFromDays(now).y, civilFromDays(now).m, 0) - 1)

getFullMonthDays(now) ==
  daysFromTo(newDate(civilFromDays(now).y, civilFromDays(now).m - 1, 1),
             newDate(civilFromDays(now).y, civilFromDays(now).m, 0))

(* The grouping loop of MonthGrid and YearGrid.  fillWeek runs the loop    *)
(* from day i until a Sunday has been put in currentWeek or the days are   *)
(* used up.  currentWeek is fresh at the first day and after every Sunday: *)
(* these are the days a pushed week starts at.  A week is pushed when it   *)
(* ends with a Sunday, and the last one when it holds a day.               *)
RECURSIVE fillWeek(_, _, _)
placeDay(days, i, currentWeek, dayOfWeek) ==
  IF dayOfWeek = 6
  THEN [week |-> [currentWeek EXCEPT ![7] = <<days[i]>>], next |-> i + 1]
  ELSE fillWeek(days, i + 1, [currentWeek EXCEPT ![dayOfWeek + 1] = <<days[i]>>])

fillWeek(days, i, currentWeek) ==
  IF i > Len(days) THEN [week |-> currentWeek, next |-> i]
  ELSE placeDay(days, i, currentWeek, getDayOfWeek(days[i]))

weekStartsAt(days, i) == i = 1 \/ getDayOfWeek(days[i - 1]) = 6

weekFrom(days, i) ==
  IF weekStartsAt(days, i) THEN fillWeek(days, i, EMPTY_WEEK).week ELSE EMPTY_WEEK

hasDay(week) == \E k \in 1..7 : week[k] # <<>>

weeksFrom(days) == <<>> \o [i \in 1..Len(days) |-> weekFrom(days, i)]

groupWeeks(days) == SelectSeq(weeksFrom(days), hasDay)

MonthGrid(vs, now) ==
  renderWeeks(groupWeeks(getFullMonthDays(now)), vs, now)

getFullYearDays(now) ==
  daysFromTo(newDate(civilFromDays(now).y, 0, 1), newDate(civilFromDays(now).y, 11, 31))

(* YearGrid draws row by row; the cell of row r and column w is slot r of  *)
(* week w                                                                  *)
YearGrid(vs, now) ==
  renderWeeks(groupWeeks(getFullYearDays(now)), vs, now)

StreakGrid(vs, p, now, west) ==
  CASE p = "week" -> WeekGrid(vs, getDaysInPeriod(p, now), now, west)
    [] p = "month" -> MonthGrid(vs, now)
    [] p = "year" -> YearGrid(vs, now)

(* StreakStats: the values and the description of the longest-streak card *)
longestDescription_BestAtZero(currentStreak, longestStreak) ==
  IF currentStreak >= longestStreak
  THEN "You're at your best!"
  ELSE "Your personal record"

longestDescription(currentStreak, longestStreak) ==
  IF currentStreak >= longestStreak /\ currentStreak > 0
  THEN "You're at your best!"
  ELSE "Your personal record"

statCards(currentStreak, longestStreak, totalVisits) ==
  [currentStreak |-> currentStreak,
   longestStreak |-> longestStreak,
   totalVisits |-> totalVisits,
   longestDescription |-> longestDescription(currentStreak, longestStreak)]

StreakStats(vs, now) ==
  statCards(calculateCurrentStreak(vs, now), calculateLongestStreak(vs, now),
            calculateTotalVisits(vs))

(* The dates a visit may be recorded for: around the days the model runs through *)
VisitDates == { formatDate(n) : n \in (StartDay - 1)..(StartDay + VisitSpan - 1) }

Periods == {"week", "month", "year"}

-----------------------------------------------------------------------------
(* FAQ.  The items prop is an array of question/answer pairs, of which the *)
(* model keeps the length; an item is known by its index, counted from 0.  *)

(* Bound: the most items the FAQ is given *)
MaxFaqItems == 16

(* toggleItem: the updater it hands to setExpandedItems *)
toggleItem(prev, index) ==
  IF index \in prev THEN prev \ {index} ELSE prev \cup {index}

(* items.slice(0, initialDisplayCount) unless showAll: the indices shown *)
displayedItems(items, initialDisplayCount, showAll) ==
  IF showAll \/ initialDisplayCount >= items THEN items ELSE initialDisplayCount

hasMoreItems(items, initialDisplayCount) == items > initialDisplayCount

(* FAQItemComponent as FAQ renders it: isExpanded={true}, and the answer   *)
(* paragraph is drawn whatever isExpanded is                               *)
FAQItemComponent(index, expandedItems) ==
  [index |-> index, isExpanded |-> TRUE, answerShown |-> TRUE]

faqList(shown, expandedItems) ==
  [k \in 1..shown |-> FAQItemComponent(k - 1, expandedItems)]

(* The FAQ function component, run with the props and the state of f *)
FAQ(f) ==
  [f EXCEPT !.view = faqList(displayedItems(f.items, f.initialDisplayCount, f.showAll),
                             f.expandedItems)]

-----------------------------------------------------------------------------
(* Kana selection labels.  The kana table (features/Kana/data/kana) is an  *)
(* array of groups, each with a groupName and its kana; the groups of a    *)
(* challenge have a groupName that starts with 'challenge.'.  The table    *)
(* here has two ordinary groups and one challenge group; kana are written  *)
(* in romaji.  Array indices are those of the program, from 0.             *)

kana ==
  << [groupName |-> "H-Base-a", kana |-> <<"a", "i", "u", "e", "o">>],
     [groupName |-> "challenge.similar-hiragana", kana |-> <<"nu", "me">>],
     [groupName |-> "K-Base-a", kana |-> <<"A", "I", "U", "E", "O">>] >>

(* Bounds: the largest index a selection holds (one beyond the table), and *)
(* the number of kanji and of vocabulary sets                              *)
MaxGroupIndex == 3

MaxSetNumber == 2

(* String(n) of a natural number *)
RECURSIVE numberToString(_)
numberToString(n) ==
  IF n < 10 THEN Digits[n + 1] ELSE numberToString(n \div 10) \o Digits[(n % 10) + 1]

(* kana[i]: <<>> (undefined) outside the table *)
groupAt(i) == IF i \in 0..(Len(kana) - 1) THEN <<kana[i + 1]>> ELSE <<>>

isChallengeGroup(group) == startsWith(group.groupName, "challenge.")

nonChallengeIndices == { i \in 0..(Len(kana) - 1) : ~isChallengeGroup(kana[i + 1]) }

selectedSet(indices) == { indices[k] : k \in 1..Len(indices) }

allNonChallengeSelected(indices) == nonChallengeIndices \subseteq selectedSet(indices)

groupLabel(group) ==
  IF isChallengeGroup(group) THEN group.kana[1] \o "-group (challenge)"
  ELSE group.kana[1] \o "-group"

(* SelectionStatusBar: the body of the forEach, on the arrays full and     *)
(* compact                                                                 *)
namesAfter_GroupsKeptUnderAll(names, i, allSelected) ==
  IF groupAt(i) = <<>>
  THEN IF ~allSelected
       THEN [full |-> Append(names.full, "Group " \o numberToString(i + 1)),
             compact |-> Append(names.compact, "Group " \o numberToString(i + 1))]
       ELSE names
  ELSE [full |-> Append(names.full, groupLabel(groupAt(i)[1])),
        compact |-> Append(names.compact, groupAt(i)[1].kana[1])]

namesAfter(names, i, allSelected) ==
  IF groupAt(i) = <<>>
  THEN IF ~allSelected
       THEN [full |-> Append(names.full, "Group " \o numberToString(i + 1)),
             compact |-> Append(names.compact, "Group " \o numberToString(i + 1))]
       ELSE names
  ELSE IF ~isChallengeGroup(groupAt(i)[1]) /\ allSelected THEN names
  ELSE [full |-> Append(names.full, groupLabel(groupAt(i)[1])),
        compact |-> Append(names.compact, groupAt(i)[1].kana[1])]

RECURSIVE namesForEach(_, _, _, _)
namesForEach(names, indices, k, allSelected) ==
  IF k > Len(indices) THEN names
  ELSE namesForEach(namesAfter(names, indices[k], allSelected), indices, k + 1, allSelected)

(* The useMemo of SelectionStatusBar: kanaGroupNamesFull and               *)
(* kanaGroupNamesCompact                                                   *)
kanaGroupNames(indices) ==
  namesForEach(IF allNonChallengeSelected(indices)
               THEN [full |-> <<"all kana">>, compact |-> <<"all kana">>]
               ELSE [full |-> <<>>, compact |-> <<>>],
               indices, 1, allNonChallengeSelected(indices))

(* TimedChallengeKana: the body of the forEach, on the array labels *)
labelsAfter_FallbackUnderAll(labels, i, allSelected) ==
  IF groupAt(i) = <<>>
  THEN Append(labels, "Group " \o numberToString(i + 1))
  ELSE IF ~isChallengeGroup(groupAt(i)[1]) /\ allSelected THEN labels
  ELSE Append(labels, IF isChallengeGroup(groupAt(i)[1])
                      THEN groupAt(i)[1].kana[1] \o "-group (challenge)"
                      ELSE groupAt(i)[1].kana[1] \o "-group")

labelsAfter(labels, i, allSelected) ==
  IF groupAt(i) = <<>>
  THEN IF ~allSelected THEN Append(labels, "Group " \o numberToString(i + 1)) ELSE labels
  ELSE IF ~isChallengeGroup(groupAt(i)[1]) /\ allSelected THEN labels
  ELSE Append(labels, IF isChallengeGroup(groupAt(i)[1])
                      THEN groupAt(i)[1].kana[1] \o "-group (challenge)"
                      ELSE groupAt(i)[1].kana[1] \o "-group")

RECURSIVE labelsForEach(_, _, _, _)
labelsForEach(labels, indices, k, allSelected) ==
  IF k > Len(indices) THEN labels
  ELSE labelsForEach(labelsAfter(labels, indices[k], allSelected), indices, k + 1, allSelected)

(* The useMemo of TimedChallengeKana *)
selectedKanaGroups(indices) ==
  labelsForEach(IF allNonChallengeSelected(indices) THEN <<"all kana">> ELSE <<>>,
                indices, 1, allNonChallengeSelected(indices))

(* The stores of the three content types (useKanaStore, useKanjiStore,     *)
(* useVocabStore).  The kanji and the words selected are held by the name  *)
(* of the set they come from.                                              *)
SetNames == { "Set " \o numberToString(n) : n \in 1..MaxSetNumber }

(* useKanaStore.addKanaGroupIndices: every index passed is toggled, taken  *)
(* out when it is selected and added at the end when it is not             *)
removeIndex(current, i) ==
  SelectSeq(current, LAMBDA j : j # i)

toggleIndex(current, i) ==
  IF i \in selectedSet(current) THEN removeIndex(current, i) ELSE Append(current, i)

RECURSIVE toggleFrom(_, _, _)
toggleFrom(current, indices, k) ==
  IF k > Len(indices) THEN current
  ELSE toggleFrom(toggleIndex(current, indices[k]), indices, k + 1)

addKanaGroupIndices(current, indices) == toggleFrom(current, indices, 1)

(* A set of levels is selected or deselected on the kanji or vocabulary    *)
(* page: its name is added at the end or taken out                         *)
toggleSetName(sets, name) ==
  IF \E k \in 1..Len(sets) : sets[k] = name
  THEN SelectSeq(sets, LAMBDA n : n # name)
  ELSE Append(sets, name)

toggleObjs(objs, name) == IF name \in objs THEN objs \ {name} ELSE objs \cup {name}

(* parseInt(a.replace('Set ', '')) for a set name 'Set N' *)
setNumber(name) == parseDigits(SubSeq(name, 5, Len(name)), 0)

(* Array.prototype.sort with the comparator numA - numB: a stable sort by  *)
(* set number, which puts the array itself in that order                   *)
RECURSIVE insertSet(_, _)
insertSet(sorted, name) ==
  IF sorted = <<>> THEN <<name>>
  ELSE IF setNumber(sorted[Len(sorted)]) <= setNumber(name) THEN Append(sorted, name)
  ELSE Append(insertSet(SubSeq(sorted, 1, Len(sorted) - 1), name), sorted[Len(sorted)])

RECURSIVE sortFrom(_, _, _)
sortFrom(sets, k, sorted) ==
  IF k > Len(sets) THEN sorted ELSE sortFrom(sets, k + 1, insertSet(sorted, sets[k]))

sortSets(sets) == sortFrom(sets, 1, <<>>)

(* Array.prototype.join(', ') *)
RECURSIVE joinFrom(_, _)
joinFrom(names, k) ==
  IF k > Len(names) THEN ""
  ELSE IF k = Len(names) THEN names[k]
  ELSE names[k] \o ", " \o joinFrom(names, k + 1)

join(names) == joinFrom(names, 1)

(* The stores as one record, st, with the fields kanaGroupIndices,         *)
(* selectedKanjiSets, selectedKanjiObjs, selectedVocabSets and             *)
(* selectedVocabObjs                                                       *)
hasSelection(ct, st) ==
  IF ct = "kana" THEN Len(st.kanaGroupIndices) > 0
  ELSE IF ct = "kanji" THEN Len(st.selectedKanjiSets) > 0
  ELSE Len(st.selectedVocabSets) > 0

(* The stores after SelectionStatusBar has run: sort puts the array of the *)
(* store it reads in order (the kanji one on the kanji page, the           *)
(* vocabulary one on every other page)                                     *)
sortedStores(ct, st) ==
  IF ct = "kanji"
  THEN [st EXCEPT !.selectedKanjiSets = sortSets(st.selectedKanjiSets)]
  ELSE [st EXCEPT !.selectedVocabSets = sortSets(st.selectedVocabSets)]

sortedSets(ct, st) ==
  IF ct = "kanji" THEN sortSets(st.selectedKanjiSets) ELSE sortSets(st.selectedVocabSets)

formattedKana(names) == IF Len(names) > 0 THEN join(names) ELSE "None"

(* What SelectionStatusBar computes and shows.  For kanji and vocabulary   *)
(* the text is formatLevelsAsRanges(sortedSets); here sortedSets stands    *)
(* for it.                                                                 *)
statusBarWith(ct, st, names) ==
  [visible |-> hasSelection(ct, st),
   selectionLabel |-> IF ct = "kana" THEN "Selected Groups:" ELSE "Selected Levels:",
   kanaGroupNamesFull |-> names.full,
   kanaGroupNamesCompact |-> names.compact,
   formattedKanaFull |-> formattedKana(names.full),
   formattedKanaCompact |-> formattedKana(names.compact),
   sortedSets |-> sortedSets(ct, st)]

SelectionStatusBar(ct, st) == statusBarWith(ct, st, kanaGroupNames(st.kanaGroupIndices))

(* handleClear, after its playClick() *)
handleClear_ClearsEveryStore(ct, st) ==
  [st EXCEPT !.kanaGroupIndices = <<>>,
             !.selectedKanjiSets = <<>>, !.selectedKanjiObjs = {},
             !.selectedVocabSets = <<>>, !.selectedVocabObjs = {}]

handleClear(ct, st) ==
  IF ct = "kana"
  THEN [st EXCEPT !.kanaGroupIndices =
                     addKanaGroupIndices(st.kanaGroupIndices, st.kanaGroupIndices)]
  ELSE IF ct = "kanji"
  THEN [st EXCEPT !.selectedKanjiSets = <<>>, !.selectedKanjiObjs = {}]
  ELSE [st EXCEPT !.selectedVocabSets = <<>>, !.selectedVocabObjs = {}]

-----------------------------------------------------------------------------
(* The state after construction: empty stores, nothing looked up yet,      *)
(* nothing applied to the document                                         *)

NoCall == [op |-> "none", id |-> "", found |-> FALSE, value |-> <<>>, writes |-> {}]

ThemeInit ==
  /\ customThemes = {}
  /\ wallpapers = {}
  /\ objectUrls = {}
  /\ themeMap = <<>>
  /\ aliased = FALSE
  /\ loaded = FALSE
  /\ subscriptions = [themes |-> 0, wallpapers |-> 0]
  /\ registry = [k \in {} |-> k]
  /\ rootStyle = [prop \in CssProperties |-> ""]
  /\ dataTheme = ""
  /\ bodyStyle = clearedBody
  /\ glassMode = FALSE
  /\ call = NoCall
  /\ removedThemes = {}

GridInit ==
  /\ today = StartDay
  /\ visits = {}
  /\ zoneWest \in BOOLEAN
  /\ period = "week"
  /\ grid = <<>>
  /\ stats = <<>>
  /\ fullWeek = [called |-> FALSE, days |-> <<>>, weekDays |-> <<>>]

(* The FAQ component before it is mounted; useState gives the empty set    *)
(* and false on mount                                                      *)
FaqInit ==
  faq = [mounted |-> FALSE, items |-> 0, initialDisplayCount |-> 0,
         expandedItems |-> {}, showAll |-> FALSE, view |-> <<>>]

(* The stores are empty; the status bar is rendered on the kana page *)
stores ==
  [kanaGroupIndices |-> kanaGroupIndices,
   selectedKanjiSets |-> selectedKanjiSets, selectedKanjiObjs |-> selectedKanjiObjs,
   selectedVocabSets |-> selectedVocabSets, selectedVocabObjs |-> selectedVocabObjs]

emptyStores ==
  [kanaGroupIndices |-> <<>>,
   selectedKanjiSets |-> <<>>, selectedKanjiObjs |-> {},
   selectedVocabSets |-> <<>>, selectedVocabObjs |-> {}]

SelectionInit ==
  /\ contentType = "kana"
  /\ kanaGroupIndices = <<>>
  /\ selectedKanjiSets = <<>>
  /\ selectedKanjiObjs = {}
  /\ selectedVocabSets = <<>>
  /\ selectedVocabObjs = {}
  /\ statusBar = SelectionStatusBar("kana", emptyStores)
  /\ timedChallenge = <<>>

Init == ThemeInit /\ GridInit /\ FaqInit /\ SelectionInit

setCacheState(s) ==
  /\ themeMap' = s.themeMap
  /\ aliased' = s.aliased
  /\ loaded' = s.loaded
  /\ subscriptions' = s.subscriptions
  /\ registry' = s.registry

setPresentation(pres) ==
  /\ rootStyle' = pres.rootStyle
  /\ dataTheme' = pres.dataTheme
  /\ bodyStyle' = pres.bodyStyle
  /\ glassMode' = pres.glassMode

(* The ids a caller may pass *)
ThemeIds ==
  BuiltinIds \cup DOMAIN legacyThemeAliases \cup CustomThemeIds
    \cup CustomWallpaperIds \cup {"no-such-theme"}

-----------------------------------------------------------------------------
(* Store changes.  A store notifies its listeners synchronously on every   *)
(* change; the listeners exist once ensureCustomThemesLoaded has run.      *)

notifyThemes(s, themes) ==
  IF s.subscriptions.themes > 0 THEN customThemeListener(s, themes) ELSE s

notifyWallpapers(s, wps, urls) ==
  IF s.subscriptions.wallpapers > 0 THEN customWallpaperListener(s, wps, urls) ELSE s

AddCustomTheme(t) ==
  /\ t \notin customThemes
  /\ customThemes' = customThemes \cup {t}
  /\ setCacheState(notifyThemes(cacheState, customThemes \cup {t}))
  /\ call' = [NoCall EXCEPT !.op = "addTheme", !.id = t]
  /\ removedThemes' = removedThemes \ {t}
  /\ UNCHANGED <<wallpapers, objectUrls, rootStyle, dataTheme, bodyStyle, glassMode,
                 gridVars, faqVars, selectionVars>>

RemoveCustomTheme(t) ==
  /\ t \in customThemes
  /\ customThemes' = customThemes \ {t}
  /\ setCacheState(notifyThemes(cacheState, customThemes \ {t}))
  /\ call' = [NoCall EXCEPT !.op = "removeTheme", !.id = t]
  /\ removedThemes' = removedThemes \cup {t}
  /\ UNCHANGED <<wallpapers, objectUrls, rootStyle, dataTheme, bodyStyle, glassMode,
                 gridVars, faqVars, selectionVars>>

AddWallpaper(w) ==
  /\ w \notin wallpapers
  /\ wallpapers' = wallpapers \cup {w}
  /\ setCacheState(notifyWallpapers(cacheState, wallpapers \cup {w}, objectUrls))
  /\ call' = [NoCall EXCEPT !.op = "addWallpaper", !.id = w]
  /\ UNCHANGED <<customThemes, objectUrls, rootStyle, dataTheme, bodyStyle, glassMode,
                 removedThemes, gridVars, faqVars, selectionVars>>

RemoveWallpaper(w) ==
  /\ w \in wallpapers
  /\ wallpapers' = wallpapers \ {w}
  /\ objectUrls' = objectUrls \ {w}
  /\ setCacheState(notifyWallpapers(cacheState, wallpapers \ {w}, objectUrls \ {w}))
  /\ call' = [NoCall EXCEPT !.op = "removeWallpaper", !.id = w]
  /\ UNCHANGED <<customThemes, rootStyle, dataTheme, bodyStyle, glassMode, removedThemes, gridVars, faqVars, selectionVars>>

SetObjectUrl(w) ==
  /\ w \in wallpapers
  /\ w \notin objectUrls
  /\ objectUrls' = objectUrls \cup {w}
  /\ setCacheState(notifyWallpapers(cacheState, wallpapers, objectUrls \cup {w}))
  /\ call' = [NoCall EXCEPT !.op = "setObjectUrl", !.id = w]
  /\ UNCHANGED <<customThemes, wallpapers, rootStyle, dataTheme, bodyStyle, glassMode,
                 removedThemes, gridVars, faqVars, selectionVars>>

-----------------------------------------------------------------------------
(* Calls of the public API *)

returnTheme(themeId, r) ==
  /\ setCacheState(r.state)
  /\ call' = [op |-> "getTheme", id |-> themeId, found |-> r.theme # <<>>,
              value |-> r.theme, writes |-> {}]

GetTheme(themeId) ==
  /\ returnTheme(themeId,
                 getTheme(cacheState, themeId, customThemes, wallpapers, objectUrls))
  /\ UNCHANGED <<customThemes, wallpapers, objectUrls, rootStyle, dataTheme,
                 bodyStyle, glassMode, removedThemes, gridVars, faqVars, selectionVars>>

returnApplied(themeId, r) ==
  /\ setCacheState(r.state)
  /\ setPresentation(r.pres)
  /\ call' = [op |-> "applyTheme", id |-> themeId, found |-> r.found,
              value |-> r.error, writes |-> r.writes]

ApplyTheme(themeId) ==
  /\ returnApplied(themeId,
                   applyTheme(cacheState, presentation, themeId, customThemes,
                              wallpapers, objectUrls))
  /\ UNCHANGED <<customThemes, wallpapers, objectUrls, removedThemes, gridVars, faqVars, selectionVars>>

(* The theme objects a caller previews: the theme of a built-in, premium,  *)
(* custom or custom wallpaper id as the map would hold it, and themes that *)
(* are in no map                                                           *)
previewThemes ==
  { buildThemeFromTemplate(
      [id |-> "preview", backgroundColor |-> "oklch(20% 0.1 10)",
       cardColor |-> "oklch(25% 0.1 10)", borderColor |-> "oklch(30% 0.1 10)",
       mainColor |-> "oklch(90% 0.1 10)", secondaryColor |-> ""]),
    buildThemeFromTemplate(
      [id |-> "custom-preview", backgroundColor |-> "oklch(20% 0.1 10)",
       cardColor |-> "oklch(25% 0.1 10)", borderColor |-> "oklch(30% 0.1 10)",
       mainColor |-> "oklch(90% 0.1 10)", secondaryColor |-> "oklch(70% 0.1 10)"]) }

ThemeObjects ==
  { builtinThemeMap[id] : id \in BuiltinIds }
    \cup { templateTheme(id) : id \in CustomThemeIds }
    \cup { buildCustomWallpaperTheme(id) : id \in CustomWallpaperIds }
    \cup previewThemes

returnAppliedObject(theme, r) ==
  /\ setPresentation(r.pres)
  /\ call' = [op |-> "applyThemeObject", id |-> theme.id, found |-> TRUE,
              value |-> <<theme>>, writes |-> r.writes]

ApplyThemeObject(theme) ==
  /\ returnAppliedObject(theme, applyThemeObject(presentation, theme))
  /\ UNCHANGED <<customThemes, wallpapers, objectUrls, themeMap, aliased, loaded,
                 subscriptions, registry, removedThemes, gridVars, faqVars, selectionVars>>

Next ==
  \/ \E t \in CustomThemeIds : AddCustomTheme(t)
  \/ \E t \in CustomThemeIds : RemoveCustomTheme(t)
  \/ \E w \in CustomWallpaperIds : AddWallpaper(w)
  \/ \E w \in CustomWallpaperIds : RemoveWallpaper(w)
  \/ \E w \in CustomWallpaperIds : SetObjectUrl(w)
  \/ \E themeId \in ThemeIds : GetTheme(themeId)
  \/ \E themeId \in ThemeIds : ApplyTheme(themeId)

Spec == Init /\ [][Next]_vars

(* The theme picker with its live preview: themes are created, applied by  *)
(* id, and previewed as objects                                            *)
PreviewNext ==
  \/ \E t \in CustomThemeIds : AddCustomTheme(t)
  \/ \E w \in CustomWallpaperIds : AddWallpaper(w)
  \/ \E themeId \in ThemeIds : ApplyTheme(themeId)
  \/ \E theme \in ThemeObjects : ApplyThemeObject(theme)

SpecPreview == Init /\ [][PreviewNext]_vars

-----------------------------------------------------------------------------
(* The pure functions of theme ids, applied to ids drawn from QueryIds     *)

QueryPrefixes == {"", "custom", "custom-", "Custom-", "x-custom-", "neon-city", "premium-"}

QuerySuffixes == {"", "a", "-", "-glass", "neon-city", "custom-"}

QueryIds == ThemeIds \cup { p \o q : p \in QueryPrefixes, q \in QuerySuffixes }

IsPremiumThemeId(themeId) ==
  /\ call' = [op |-> "isPremiumThemeId", id |-> themeId, found |-> TRUE,
              value |-> <<isPremiumThemeId(themeId)>>, writes |-> {}]
  /\ UNCHANGED <<customThemes, wallpapers, objectUrls, themeMap, aliased,
                 loaded, subscriptions, registry, rootStyle, dataTheme, bodyStyle,
                 glassMode, removedThemes, gridVars, faqVars, selectionVars>>

GetThemeDefaultWallpaperId(themeId) ==
  /\ call' = [op |-> "getThemeDefaultWallpaperId", id |-> themeId, found |-> TRUE,
              value |-> getThemeDefaultWallpaperId(themeId), writes |-> {}]
  /\ UNCHANGED <<customThemes, wallpapers, objectUrls, themeMap, aliased,
                 loaded, subscriptions, registry, rootStyle, dataTheme, bodyStyle,
                 glassMode, removedThemes, gridVars, faqVars, selectionVars>>

ResolveThemeId(themeId) ==
  /\ call' = [op |-> "resolveThemeId", id |-> themeId, found |-> TRUE,
              value |-> <<resolveThemeId(themeId)>>, writes |-> {}]
  /\ UNCHANGED <<customThemes, wallpapers, objectUrls, themeMap, aliased,
                 loaded, subscriptions, registry, rootStyle, dataTheme, bodyStyle,
                 glassMode, removedThemes, gridVars, faqVars, selectionVars>>

QueryNext ==
  \/ \E themeId \in QueryIds : IsPremiumThemeId(themeId)
  \/ \E themeId \in QueryIds : GetThemeDefaultWallpaperId(themeId)
  \/ \E themeId \in QueryIds : ResolveThemeId(themeId)

SpecQueries == Init /\ [][QueryNext]_vars


-----------------------------------------------------------------------------
(* The streak page: days pass, visits are recorded, the grid is rendered.  *)
(* The grid is rendered again when its visits prop changes.                *)

rerendered(vs, now) ==
  IF grid = <<>> THEN <<>> ELSE StreakGrid(vs, period, now, zoneWest)

rerenderedStats(vs, now) ==
  IF stats = <<>> THEN <<>> ELSE <<StreakStats(vs, now)>>

Tick ==
  /\ today < StartDay + MaxTicks
  /\ today' = today + 1
  /\ UNCHANGED <<visits, zoneWest, period, grid, stats, fullWeek, themeVars, faqVars, selectionVars>>

AddVisit(date) ==
  /\ date \notin visits
  /\ visits' = visits \cup {date}
  /\ grid' = rerendered(visits \cup {date}, today)
  /\ stats' = rerenderedStats(visits \cup {date}, today)
  /\ UNCHANGED <<today, zoneWest, period, fullWeek, themeVars, faqVars, selectionVars>>

Render(p) ==
  /\ period' = p
  /\ grid' = StreakGrid(visits, p, today, zoneWest)
  /\ UNCHANGED <<today, visits, zoneWest, stats, fullWeek, themeVars, faqVars, selectionVars>>

RenderStats ==
  /\ stats' = <<StreakStats(visits, today)>>
  /\ UNCHANGED <<today, visits, zoneWest, period, grid, fullWeek, themeVars, faqVars, selectionVars>>

GridNext ==
  \/ Tick
  \/ \E date \in VisitDates : AddVisit(date)
  \/ \E p \in Periods : Render(p)
  \/ RenderStats

SpecGrid == Init /\ [][GridNext]_vars

(* getFullWeekDays called on its own, with arrays of consecutive dates     *)
FirstDaySpan == 14

MaxDaysLength == 7

WeekInputs ==
  {<<>>} \cup { daysFromTo(first, first + n - 1) :
                  first \in (StartDay - 2)..(StartDay + FirstDaySpan - 3),
                  n \in 1..MaxDaysLength }

GetFullWeekDays(days) ==
  /\ fullWeek' = [called |-> TRUE, days |-> days,
                  weekDays |-> getFullWeekDays(days, zoneWest)]
  /\ UNCHANGED <<today, visits, zoneWest, period, grid, stats, themeVars, faqVars, selectionVars>>

WeekNext == \E days \in WeekInputs : GetFullWeekDays(days)

SpecWeek == Init /\ [][WeekNext]_vars

-----------------------------------------------------------------------------
(* The FAQ section: it is rendered with props (first mounting it), and the *)
(* 'Show All Questions' button is clicked.  Nothing FAQ renders calls      *)
(* toggleItem: the items get onToggle={() => {}}.                          *)

FaqRender(items, initialDisplayCount) ==
  /\ faq' = FAQ([faq EXCEPT !.mounted = TRUE, !.items = items,
                            !.initialDisplayCount = initialDisplayCount])
  /\ UNCHANGED <<themeVars, gridVars, selectionVars>>

ToggleShowAll ==
  /\ faq.mounted
  /\ hasMoreItems(faq.items, faq.initialDisplayCount)
  /\ faq' = FAQ([faq EXCEPT !.showAll = ~faq.showAll])
  /\ UNCHANGED <<themeVars, gridVars, selectionVars>>

FaqNext ==
  \/ \E items \in 0..MaxFaqItems, initialDisplayCount \in 0..MaxFaqItems :
       FaqRender(items, initialDisplayCount)
  \/ ToggleShowAll

SpecFaq == Init /\ [][FaqNext]_vars

-----------------------------------------------------------------------------
(* The study pages: the user goes from page to page, selects and deselects *)
(* kana groups and sets of levels, presses the clear button of the status  *)
(* bar, and goes to the timed kana challenge.  A change of the path or of  *)
(* a store renders the status bar again, and the timed challenge too while *)
(* it is mounted.                                                          *)

TimedChallengePath == "kana/timed-challenge"

ContentTypes == {"kana", "kanji", "vocabulary", TimedChallengePath}

(* TimedChallengeKana is mounted on its page and hands its labels on as    *)
(* the selectedSets of the challenge                                       *)
TimedChallengeKana(ct, indices) ==
  IF ct = TimedChallengePath THEN <<selectedKanaGroups(indices)>> ELSE <<>>

(* The index lists a page passes to addKanaGroupIndices: one group, or all *)
(* groups of the table at once                                             *)
IndexLists ==
  { <<i>> : i \in 0..MaxGroupIndex } \cup { <<>> \o [k \in 1..Len(kana) |-> k - 1] }

(* The state after op has made the stores st on the page ct *)
rendered(op, ct, st) ==
  /\ contentType' = ct
  /\ kanaGroupIndices' = sortedStores(ct, st).kanaGroupIndices
  /\ selectedKanjiSets' = sortedStores(ct, st).selectedKanjiSets
  /\ selectedKanjiObjs' = sortedStores(ct, st).selectedKanjiObjs
  /\ selectedVocabSets' = sortedStores(ct, st).selectedVocabSets
  /\ selectedVocabObjs' = sortedStores(ct, st).selectedVocabObjs
  /\ statusBar' = SelectionStatusBar(ct, st)
  /\ timedChallenge' = TimedChallengeKana(ct, st.kanaGroupIndices)
  /\ call' = [NoCall EXCEPT !.op = op, !.id = ct]
  /\ UNCHANGED <<customThemes, wallpapers, objectUrls, themeMap, aliased, loaded,
                 subscriptions, registry, rootStyle, dataTheme, bodyStyle, glassMode,
                 removedThemes, gridVars, faqVars>>

Navigate(path) ==
  /\ path # contentType
  /\ rendered("navigate", path, stores)

ToggleKanaGroups(indices) ==
  /\ Len(indices) > 0
  /\ rendered("addKanaGroupIndices", contentType,
              [stores EXCEPT !.kanaGroupIndices =
                               addKanaGroupIndices(kanaGroupIndices, indices)])

ToggleKanjiSet(name) ==
  /\ name \in SetNames
  /\ rendered("toggleKanjiSet", contentType,
              [stores EXCEPT !.selectedKanjiSets = toggleSetName(selectedKanjiSets, name),
                             !.selectedKanjiObjs = toggleObjs(selectedKanjiObjs, name)])

ToggleVocabSet(name) ==
  /\ name \in SetNames
  /\ rendered("toggleVocabSet", contentType,
              [stores EXCEPT !.selectedVocabSets = toggleSetName(selectedVocabSets, name),
                             !.selectedVocabObjs = toggleObjs(selectedVocabObjs, name)])

(* The clear button is there while the bar is shown *)
PressClear ==
  /\ statusBar.visible
  /\ rendered("handleClear", contentType, handleClear(contentType, stores))

SelectionNext ==
  \/ \E path \in ContentTypes : Navigate(path)
  \/ \E indices \in IndexLists : ToggleKanaGroups(indices)
  \/ \E name \in SetNames : ToggleKanjiSet(name)
  \/ \E name \in SetNames : ToggleVocabSet(name)
  \/ PressClear

SpecSelection == Init /\ [][SelectionNext]_vars

-----------------------------------------------------------------------------
(* Properties of the theme system *)

wasLookup == call.op \in {"getTheme", "applyTheme"}

appliedOk == call.op = "applyTheme" /\ call.found

(* The current identifier a caller's id stands for, read off the alias table *)
currentIdOf(id) ==
  IF id \in DOMAIN legacyThemeAliases THEN legacyThemeAliases[id] ELSE id

(* C1: at every getTheme or applyTheme call the lookup map holds every     *)
(* custom theme and every custom wallpaper that is in its store, so a      *)
(* getTheme of such an id returns a theme                                  *)
C1_LookupHoldsEveryCustomEntry ==
  wasLookup =>
    /\ themeMap # <<>>
    /\ (customThemes \cup wallpapers) \subseteq DOMAIN themeMap[1]
    /\ (call.op = "getTheme" /\ call.id \in customThemes \cup wallpapers => call.found)

(* C2: once a custom theme has been removed from the custom theme store,   *)
(* getTheme of its id returns undefined: the call just made did, and a     *)
(* call made now would                                                     *)
C2_RemovedThemeNotFound ==
  /\ (call.op = "getTheme" /\ call.id \in removedThemes => ~call.found)
  /\ \A id \in removedThemes :
       getTheme(cacheState, id, customThemes, wallpapers, objectUrls).theme = <<>>

(* C2 witness: the listeners were registered, a theme was removed while    *)
(* another stayed, and getTheme of the removed id came back undefined      *)
C2_Witness ==
  /\ call.op = "getTheme"
  /\ call.id \in removedThemes
  /\ ~call.found
  /\ subscriptions.themes > 0
  /\ customThemes # {}

(* C3: a wallpaper id that is not in the custom wallpaper store is neither *)
(* in the theme map nor in the wallpaper registry                          *)
C3_StaleWallpaperRemoved ==
  \A w \in CustomWallpaperIds \ wallpapers :
    /\ w \notin DOMAIN registry
    /\ (themeMap # <<>> => w \notin DOMAIN themeMap[1])

(* C4: an applyTheme whose id is not in the theme map leaves the root      *)
(* style, the data-theme attribute, the body background and the glass mode *)
(* preference as they were                                                 *)
C4_UnknownThemeIsNoOp ==
  [][(call'.op = "applyTheme" /\ ~call'.found) =>
       UNCHANGED <<rootStyle, dataTheme, bodyStyle, glassMode>>]_vars

(* C4 witness: an unknown id was applied after a theme with a wallpaper    *)
C4_Witness ==
  /\ call.op = "applyTheme"
  /\ ~call.found
  /\ dataTheme # ""
  /\ bodyStyle.backgroundImage # ""
  /\ glassMode

(* The background image the theme of the current id should show: the      *)
(* custom wallpaper as its store holds it now, the wallpaper a built-in    *)
(* theme declares, or none                                                 *)
declaredWallpapers(id) ==
  { t.wallpaperId[1] : t \in { b \in allBaseThemes : b.id = id /\ b.wallpaperId # <<>> } }

expectedBackgroundImage(id) ==
  IF id \in wallpapers
  THEN "url('" \o (IF id \in objectUrls THEN "blob:" \o id
                   ELSE customWallpaperFiles[id].thumbnailDataUrl) \o "')"
  ELSE IF declaredWallpapers(id) # {}
  THEN backgroundImageOf(builtinWallpapers[CHOOSE w \in declaredWallpapers(id) : TRUE])
  ELSE ""

(* C5: after a successful applyTheme the body's background image is the    *)
(* wallpaper of the resolved theme, and empty when it declares none        *)
C5_WallpaperFollowsTheme ==
  appliedOk => bodyStyle.backgroundImage = expectedBackgroundImage(currentIdOf(call.id))

(* C5 witness: a custom wallpaper theme was applied and shows its object URL *)
C5_Witness ==
  /\ appliedOk
  /\ call.id \in wallpapers \cap objectUrls
  /\ bodyStyle.backgroundImage = "url('blob:" \o call.id \o "')"

(* The premium ids as the claims describe them *)
claimedPremium(id) ==
  \/ \E g \in 1..Len(baseThemeSets) :
       /\ startsWith(baseThemeSets[g].name, "Premium")
       /\ \E i \in 1..Len(baseThemeSets[g].themes) : baseThemeSets[g].themes[i].id = id
  \/ startsWith(id, "custom-")

premiumStyle ==
  [prop \in CssProperties |->
     CASE prop = "--background-color" -> "oklch(0% 0 0 / 0.95)"
       [] prop = "--card-color" -> "oklch(20% 0.01 255 / 0.85)"
       [] prop = "--border-color" -> "oklch(30% 0.01 255 / 0.85)"
       [] prop = "--main-color" -> "oklch(100% 0 0)"
       [] prop = "--main-color-accent" -> generateAccentColor("oklch(100% 0 0)")
       [] prop = "--secondary-color" -> "oklch(85% 0 0)"
       [] prop = "--secondary-color-accent" -> generateAccentColor("oklch(85% 0 0)")]

storedStyle(theme) ==
  [prop \in CssProperties |->
     CASE prop = "--background-color" -> theme.backgroundColor
       [] prop = "--card-color" -> theme.cardColor
       [] prop = "--border-color" -> theme.borderColor
       [] prop = "--main-color" -> theme.mainColor
       [] prop = "--main-color-accent" -> theme.mainColorAccent
       [] prop = "--secondary-color" -> theme.secondaryColor
       [] prop = "--secondary-color-accent" -> theme.secondaryColorAccent]

SecondaryProperties == {"--secondary-color", "--secondary-color-accent"}

(* The theme the last applyTheme found *)
appliedTheme == themeMap[1][currentIdOf(call.id)]

(* C6 as stated: after a successful applyTheme the root variables are the  *)
(* fixed premium values when the resolved id is premium and the theme's    *)
(* own colours otherwise, and glass mode is isPremiumThemeId(resolved id)  *)
C6_Original ==
  appliedOk =>
    /\ glassMode = claimedPremium(currentIdOf(call.id))
    /\ rootStyle = IF claimedPremium(currentIdOf(call.id))
                   THEN premiumStyle ELSE storedStyle(appliedTheme)

(* C6 amended: as C6, except that a theme that is not premium and whose    *)
(* secondary colour is empty leaves --secondary-color and                  *)
(* --secondary-color-accent as they were                                   *)
C6_PremiumOrOwnColors ==
  appliedOk =>
    /\ glassMode = claimedPremium(currentIdOf(call.id))
    /\ IF claimedPremium(currentIdOf(call.id))
       THEN rootStyle = premiumStyle
       ELSE \A prop \in CssProperties :
              \/ (prop \in SecondaryProperties /\ appliedTheme.secondaryColor = "")
              \/ rootStyle[prop] = storedStyle(appliedTheme)[prop]

(* C6 witness: a custom wallpaper theme, whose stored card colour is not   *)
(* the premium one, was applied                                            *)
C6_Witness ==
  /\ appliedOk
  /\ call.id \in CustomWallpaperIds
  /\ appliedTheme.cardColor # rootStyle["--card-color"]
  /\ glassMode

(* C7 as stated: a successful applyTheme assigns nine custom properties on *)
(* the root, and these with the body background are all it changes for the *)
(* rendering layer                                                         *)
C7_Original ==
  [][(call'.op = "applyTheme" /\ call'.found) =>
       /\ Cardinality(call'.writes) = 9
       /\ UNCHANGED <<dataTheme, glassMode>>]_vars

(* C7 amended: a successful applyTheme assigns the seven custom properties *)
(* of CssProperties, or the five that are not secondary when the theme is  *)
(* not premium and has an empty secondary colour; no other root property   *)
(* changes; besides them and the body background it sets the data-theme    *)
(* attribute and the glass mode preference, and it changes no store        *)
C7_SevenPropertiesAndMore ==
  [][(call'.op = "applyTheme" /\ call'.found) =>
       /\ call'.writes =
            IF ~claimedPremium(currentIdOf(call'.id))
                 /\ themeMap'[1][currentIdOf(call'.id)].secondaryColor = ""
            THEN CssProperties \ SecondaryProperties
            ELSE CssProperties
       /\ \A prop \in CssProperties \ call'.writes : rootStyle'[prop] = rootStyle[prop]
       /\ dataTheme' = currentIdOf(call'.id)
       /\ glassMode' = claimedPremium(currentIdOf(call'.id))
       /\ UNCHANGED <<customThemes, wallpapers, objectUrls>>]_vars

(* C7 witness: a theme with an empty secondary colour was applied over     *)
(* another theme: five properties written, the secondary ones kept         *)
C7_Witness ==
  /\ appliedOk
  /\ Cardinality(call.writes) = 5
  /\ rootStyle["--secondary-color"] # ""

applyOutcome(r) == [state |-> r.state, pres |-> r.pres, found |-> r.found, writes |-> r.writes]

(* C8: for every legacy alias, getTheme, applyTheme, isPremiumThemeId and  *)
(* getThemeDefaultWallpaperId give what they give for the current id; an   *)
(* applyTheme of an alias sets data-theme to the current id; resolving a   *)
(* resolved id changes nothing                                             *)
C8_AliasesResolveBeforeLookup ==
  /\ \A a \in DOMAIN legacyThemeAliases :
       /\ getTheme(cacheState, a, customThemes, wallpapers, objectUrls)
            = getTheme(cacheState, legacyThemeAliases[a], customThemes, wallpapers,
                       objectUrls)
       /\ applyOutcome(applyTheme(cacheState, presentation, a, customThemes,
                                  wallpapers, objectUrls))
            = applyOutcome(applyTheme(cacheState, presentation, legacyThemeAliases[a],
                                      customThemes, wallpapers, objectUrls))
       /\ isPremiumThemeId(a) = isPremiumThemeId(legacyThemeAliases[a])
       /\ getThemeDefaultWallpaperId(a)
            = getThemeDefaultWallpaperId(legacyThemeAliases[a])
  /\ (appliedOk => dataTheme = currentIdOf(call.id))
  /\ (call.op = "getTheme" /\ call.found => call.value[1].id = currentIdOf(call.id))
  /\ \A id \in QueryIds : resolveThemeId(resolveThemeId(id)) = resolveThemeId(id)

(* C8 witness: a legacy alias was applied and data-theme is the current id *)
C8_Witness ==
  /\ appliedOk
  /\ call.id \in DOMAIN legacyThemeAliases
  /\ dataTheme = legacyThemeAliases[call.id]
  /\ dataTheme # call.id

(* C9: isPremiumThemeId(id) is true exactly when the alias-resolved id is  *)
(* a theme of the built-in group whose name starts with 'Premium' or       *)
(* starts with 'custom-'                                                   *)
C9_PremiumIffSetOrPrefix ==
  call.op = "isPremiumThemeId" => (call.value[1] <=> claimedPremium(currentIdOf(call.id)))

(* C9 witness: the query was made for an alias of a premium theme          *)
C9_Witness ==
  /\ call.op = "isPremiumThemeId"
  /\ call.id \in DOMAIN legacyThemeAliases
  /\ call.value = <<TRUE>>

-----------------------------------------------------------------------------
(* Properties of the streak grid *)

(* The cells of a rendered grid *)
cellsOf(g) ==
  UNION { { g[w][i][1] : i \in { k \in 1..7 : g[w][k] # <<>> } } : w \in 1..Len(g) }

(* The date of a cell lies strictly after today in the calendar *)
afterToday(date) == dayOfString(date) > today

(* A streak of k days is a run of k consecutive visited days, none of them *)
(* after today                                                             *)
isRunOfPastVisits(k) ==
  \/ k = 0
  \/ \E last \in (StartDay - 1)..today :
       \A i \in 0..(k - 1) : formatDate(last - i) \in visits

(* C10: in every grid view (week, month, year) a cell whose date is        *)
(* strictly after today is marked future and is not shown as visited, even *)
(* when its date is among the visits; and the streaks StreakStats shows    *)
(* count only visited days that are not after today.                       *)
C10_FutureCellsNeverVisited ==
  /\ \A c \in cellsOf(grid) :
       afterToday(c.date) =>
         /\ c.isFuture
         /\ c.look = "future"
         /\ c.title = c.date \o " (future)"
  /\ stats # <<>> =>
       /\ isRunOfPastVisits(stats[1].currentStreak)
       /\ isRunOfPastVisits(stats[1].longestStreak)

C10_Witness ==
  /\ \E p \in Periods : period = p /\ grid # <<>>
  /\ \E c \in cellsOf(grid) :
       afterToday(c.date) /\ c.date \in visits /\ c.isVisited /\ c.look = "future"
  /\ stats # <<>> /\ stats[1].longestStreak >= 2
  /\ \E v \in visits : afterToday(v) /\ formatDate(today) \in visits

(* The dates of the dated cells of a grid *)
gridDates(g) == { c.date : c \in cellsOf(g) }

(* The dates of an array of dates *)
datesOf(days) == { days[i] : i \in 1..Len(days) }

(* The Monday-based weekday of a date: Monday 0, Sunday 6 *)
rowOfDate(date) == (getDay(dayOfString(date)) + 6) % 7

(* Every dated cell of the grid g is in the row of its weekday *)
inWeekdayRows(g) ==
  \A w \in 1..Len(g) : \A i \in 1..7 :
    g[w][i] # <<>> => rowOfDate(g[w][i][1].date) = i - 1

(* C11: whenever the grid is rendered, for the week, the month or the      *)
(* year, its dated cells are exactly the dates getDaysInPeriod(period)     *)
(* returns, each in the row of its Monday-based weekday.                   *)
C11_GridShowsDaysInPeriod ==
  [][grid' # grid =>
       /\ gridDates(grid') = datesOf(getDaysInPeriod(period', today'))
       /\ inWeekdayRows(grid')]_vars

(* C12: the longest streak of a list of visits is never shorter than its   *)
(* current streak, and StreakStats shows 'You're at your best!' exactly    *)
(* when the current streak is positive and equal to the longest streak.    *)
C12_LongestAtLeastCurrent ==
  /\ calculateLongestStreak(visits, today) >= calculateCurrentStreak(visits, today)
  /\ stats # <<>> =>
       /\ stats[1].longestStreak >= stats[1].currentStreak
       /\ (stats[1].longestDescription = "You're at your best!"
             <=> (stats[1].currentStreak > 0
                    /\ stats[1].currentStreak = stats[1].longestStreak))

(* C12 witness: the cards show a current streak of two days or more that   *)
(* is the longest streak, with the description of a best streak            *)
C12_Witness ==
  /\ stats # <<>>
  /\ stats[1].currentStreak >= 2
  /\ stats[1].currentStreak = stats[1].longestStreak
  /\ stats[1].longestDescription = "You're at your best!"

-----------------------------------------------------------------------------
(* Properties of the FAQ *)

(* C13: FAQ items expand and collapse: an item is rendered expanded only   *)
(* when it is in the expanded set (so that toggling an item, which flips   *)
(* its membership of the set and no other's, flips how that item is shown  *)
(* and no other).                                                          *)
C13_ExpandedOnlyWhenInSet ==
  \A k \in 1..Len(faq.view) :
    (faq.view[k].isExpanded \/ faq.view[k].answerShown)
      => faq.view[k].index \in faq.expandedItems

-----------------------------------------------------------------------------
(* Further properties of the theme system *)

(* The theme derived for a built-in id when the module was loaded *)
loadTimeTheme(id) ==
  CHOOSE t \in UNION { { themeSets[g].themes[i] : i \in 1..Len(themeSets[g].themes) } :
                       g \in 1..Len(themeSets) } : t.id = id

(* C14: after any sequence of store changes, cache invalidations and       *)
(* lookups, getTheme of a built-in theme id returns a theme with the field *)
(* values derived at load time: the call just made did, a call made now    *)
(* would, and a map that is there holds that theme for every built-in id.  *)
C14_BuiltinsSurviveRebuild ==
  /\ (call.op = "getTheme" /\ currentIdOf(call.id) \in BuiltinIds
        => call.value = <<loadTimeTheme(currentIdOf(call.id))>>)
  /\ \A id \in BuiltinIds :
       getTheme(cacheState, id, customThemes, wallpapers, objectUrls).theme
         = <<loadTimeTheme(id)>>
  /\ themeMap # <<>> =>
       \A id \in BuiltinIds :
         id \in DOMAIN themeMap[1] /\ themeMap[1][id] = loadTimeTheme(id)

(* C14 witness: a built-in theme was looked up in a map rebuilt after an   *)
(* invalidation, with custom themes and wallpapers in the stores           *)
C14_Witness ==
  /\ call.op = "getTheme"
  /\ call.id \in BuiltinIds
  /\ call.found
  /\ loaded /\ ~aliased
  /\ customThemes # {} /\ wallpapers # {}

(* C15: the store subscriptions are registered at most once: however many *)
(* lookups are made and however often the cache is invalidated, each store *)
(* has one listener once the first call has been made and none before, and *)
(* a lookup made when the themes are loaded registers nothing.             *)
C15_SubscribedOnce ==
  /\ subscriptions.themes = (IF loaded THEN 1 ELSE 0)
  /\ subscriptions.wallpapers = (IF loaded THEN 1 ELSE 0)
  /\ loaded =>
       ensureCustomThemesLoaded(cacheState, customThemes, wallpapers, objectUrls)
         = cacheState
  /\ wasLookup => loaded

(* C15 witness: a lookup was made after the cache had been invalidated by  *)
(* a store change that followed the first load                             *)
C15_Witness ==
  /\ wasLookup
  /\ loaded /\ ~aliased
  /\ themeMap # <<>>
  /\ subscriptions.themes = 1 /\ subscriptions.wallpapers = 1

(* The map syncCustomWallpapers works on, and the map it leaves, when the  *)
(* wallpaper store holds wps                                               *)
mapBeforeSync == getThemeMap(cacheState).themeMap[1]

mapAfterSync(wps) ==
  syncCustomWallpapers(cacheState, wps, objectUrls \cap wps).themeMap[1]

(* What a sync with the collection wps may take from the map before: only  *)
(* keys that start with 'custom-' and are not in wps; the other entries    *)
(* stay as they are                                                        *)
syncKeeps(before, after, wps) ==
  \A key \in DOMAIN before :
    \/ startsWith(key, "custom-") /\ key \notin wps /\ key \notin DOMAIN after
    \/ key \in DOMAIN after /\ (key \notin wps => after[key] = before[key])

(* C16: syncCustomWallpapers deletes from the theme map only keys that     *)
(* start with 'custom-' and are absent from the current wallpaper          *)
(* collection: built-in themes and the custom color themes of the store    *)
(* are never removed by a wallpaper sync.                                  *)
C16_SyncDeletesOnlyStaleWallpapers ==
  \A wps \in SUBSET CustomWallpaperIds :
    /\ syncKeeps(mapBeforeSync, mapAfterSync(wps), wps)
    /\ \A key \in DOMAIN mapBeforeSync \cap (BuiltinIds \cup customThemes) :
         key \in DOMAIN mapAfterSync(wps)

(* C16 witness: the map holds a custom color theme of the store and a      *)
(* custom wallpaper; a sync after that wallpaper has left the store        *)
(* deletes the wallpaper's key and keeps the color theme                   *)
C16_Witness ==
  /\ themeMap # <<>>
  /\ \E t \in customThemes, w \in CustomWallpaperIds :
       /\ t \in DOMAIN themeMap[1]
       /\ w \in DOMAIN themeMap[1]
       /\ w \notin DOMAIN mapAfterSync(wallpapers \ {w})
       /\ t \in DOMAIN mapAfterSync(wallpapers \ {w})

(* getTheme of the id of a theme object returns that very theme *)
isThemeOfItsId(theme) ==
  getTheme(cacheState, theme.id, customThemes, wallpapers, objectUrls).theme = <<theme>>

(* The root style applyTheme(id) would leave, called in the current state *)
rootStyleAfterApplyTheme(id) ==
  applyTheme(cacheState, presentation, id, customThemes, wallpapers, objectUrls)
    .pres.rootStyle

(* C17: applyThemeObject(theme) changes only the root CSS colour           *)
(* variables: glass mode, the data-theme attribute, the body background    *)
(* and the theme map stay as they are, a root variable it does not write   *)
(* keeps its value, and when the theme is the one the map holds for its id *)
(* the root variables end as applyTheme of that id would leave them.       *)
C17_ThemeObjectWritesColorsOnly ==
  [][call'.op = "applyThemeObject" =>
       /\ UNCHANGED <<glassMode, dataTheme, bodyStyle, themeMap, aliased, loaded,
                      subscriptions, registry>>
       /\ \A prop \in CssProperties \ call'.writes : rootStyle'[prop] = rootStyle[prop]
       /\ (isThemeOfItsId(call'.value[1])
             => rootStyle' = rootStyleAfterApplyTheme(call'.id))]_vars

(* C17 witness: a theme object the map holds for its id was applied over   *)
(* another theme, one with a wallpaper and with the other glass mode       *)
C17_Witness ==
  /\ call.op = "applyThemeObject"
  /\ isThemeOfItsId(call.value[1])
  /\ dataTheme \notin {"", call.id}
  /\ bodyStyle.backgroundImage # ""
  /\ glassMode # claimedPremium(call.id)
  /\ rootStyle["--main-color"] = call.value[1].mainColor

(* The theme the last applyTheme found or the last applyThemeObject was    *)
(* given, and the colours that are effective for it                        *)
themeApplied ==
  IF call.op = "applyThemeObject" THEN call.value[1]
  ELSE themeMap[1][currentIdOf(call.id)]

effectiveStyle ==
  IF claimedPremium(currentIdOf(themeApplied.id)) THEN premiumStyle
  ELSE storedStyle(themeApplied)

(* C18: applyTheme and applyThemeObject write --secondary-color and        *)
(* --secondary-color-accent only when the effective secondary colour is    *)
(* not empty; when it is empty these two variables keep their values and   *)
(* the five other variables are overwritten.                               *)
C18_SecondaryWrittenWhenNonEmpty ==
  [][(call'.op \in {"applyTheme", "applyThemeObject"} /\ call'.found) =>
       /\ \A prop \in CssProperties \ SecondaryProperties :
            prop \in call'.writes /\ rootStyle'[prop] = effectiveStyle'[prop]
       /\ \A prop \in SecondaryProperties :
            IF effectiveStyle'["--secondary-color"] # ""
            THEN prop \in call'.writes /\ rootStyle'[prop] = effectiveStyle'[prop]
            ELSE prop \notin call'.writes /\ rootStyle'[prop] = rootStyle[prop]]_vars

(* C18 witness: a theme object with an empty secondary colour was applied  *)
(* over a theme that has one: five variables written, the secondary kept   *)
C18_Witness ==
  /\ call.op = "applyThemeObject"
  /\ call.value[1].secondaryColor = ""
  /\ Cardinality(call.writes) = 5
  /\ rootStyle["--secondary-color"] # ""
  /\ rootStyle["--main-color"] = call.value[1].mainColor


(* The days of the month, or of the year, that a day falls in *)
daysOfCurrent(p, now) ==
  { n \in CalendarDays :
      /\ civilFromDays(n).y = civilFromDays(now).y
      /\ p = "month" => civilFromDays(n).m = civilFromDays(now).m }

(* The day number of the cell in slot i of a week column *)
dayOfSlot(week, i) == dayOfString(week[i][1].date)

(* A week column: 7 slots, at least one day, every day at the index of its *)
(* Monday-based weekday, and the days of one and the same week             *)
isWeekColumn(week) ==
  /\ Len(week) = 7
  /\ \E i \in 1..7 : week[i] # <<>>
  /\ \A i \in 1..7 : week[i] # <<>> => rowOfDate(week[i][1].date) = i - 1
  /\ \A i, j \in 1..7 :
       (week[i] # <<>> /\ week[j] # <<>>) => dayOfSlot(week, j) - dayOfSlot(week, i) = j - i

(* The column next holds the week that follows the Sunday ending week *)
followsSunday(week, next) ==
  /\ week[7] # <<>>
  /\ \A i \in 1..7 : next[i] # <<>> => dayOfSlot(next, i) = dayOfSlot(week, 7) + i

(* C19: in the month and year views the cells hold the days of the current *)
(* month (year, 1 January to 31 December), each in one cell; every column  *)
(* has 7 slots with a day at the index of its Monday-based weekday; every  *)
(* column but the last ends with a Sunday and the next column goes on with *)
(* the days after it; the last column, full or partial, holds a day.       *)
C19_MonthAndYearColumns ==
  [][(grid' # grid /\ period' \in {"month", "year"}) =>
       /\ gridDates(grid') = { formatDate(n) : n \in daysOfCurrent(period', today') }
       /\ \A w \in 1..Len(grid') : isWeekColumn(grid'[w])
       /\ \A w \in 1..(Len(grid') - 1) : followsSunday(grid'[w], grid'[w + 1])]_vars

(* C19 witness: the month view of February 2024, which starts on a         *)
(* Thursday and ends on a Thursday, so that its first and its last column  *)
(* are partial weeks                                                       *)
C19_Witness ==
  /\ period = "month"
  /\ Len(grid) = 5
  /\ grid[1][1] = <<>> /\ grid[1][4] # <<>> /\ grid[1][4][1].date = "2024-02-01"
  /\ grid[5][4] # <<>> /\ grid[5][4][1].date = "2024-02-29"
  /\ grid[5][7] = <<>>


(* The dates of a week are 7 consecutive calendar days *)
isConsecutiveWeek(weekDays) ==
  /\ Len(weekDays) = 7
  /\ \A i \in 1..7 : weekDays[i] # <<>>
  /\ \A i \in 1..6 : dayOfString(weekDays[i + 1][1]) = dayOfString(weekDays[i][1]) + 1

(* C20: getFullWeekDays(days) returns 7 nulls for an empty array, and      *)
(* otherwise 7 consecutive dates from the Monday of the week that holds    *)
(* days[0] to the Sunday after it, days[0] being one of them.              *)
C20_FullWeekAroundFirstDay ==
  fullWeek.called =>
    IF fullWeek.days = <<>>
    THEN fullWeek.weekDays = [i \in 1..7 |-> <<>>]
    ELSE /\ isConsecutiveWeek(fullWeek.weekDays)
         /\ dayOfString(fullWeek.weekDays[1][1]) = mondayOf(dayOfString(fullWeek.days[1]))
         /\ getDay(dayOfString(fullWeek.weekDays[1][1])) = 1
         /\ getDay(dayOfString(fullWeek.weekDays[7][1])) = 0
         /\ \E i \in 1..7 : fullWeek.weekDays[i][1] = fullWeek.days[1]

-----------------------------------------------------------------------------
(* Properties of the kana selection labels and of the clear button *)

(* The indices of the table that belong to a challenge group *)
challengeIndices == (0..(Len(kana) - 1)) \ nonChallengeIndices

isChallengeIndex(i) == i \in challengeIndices

(* The entry an index is to get in the full and in the compact list *)
fullEntry(i) ==
  IF i \notin 0..(Len(kana) - 1) THEN "Group " \o numberToString(i + 1)
  ELSE IF isChallengeIndex(i) THEN kana[i + 1].kana[1] \o "-group (challenge)"
  ELSE kana[i + 1].kana[1] \o "-group"

compactEntry(i) ==
  IF i \notin 0..(Len(kana) - 1) THEN "Group " \o numberToString(i + 1)
  ELSE kana[i + 1].kana[1]

entriesOf(names) == { names[k] : k \in 1..Len(names) }

everyGroupSelected == \A i \in nonChallengeIndices : \E k \in 1..Len(kanaGroupIndices) : kanaGroupIndices[k] = i

(* C21: when every non-challenge group is selected the label lists start   *)
(* with the one entry 'all kana', hold no entry of a non-challenge group,   *)
(* and after it one '(challenge)' entry for each selected challenge group;  *)
(* otherwise they hold one entry per selected index in selection order,    *)
(* 'Group N+1' for an index outside the table.  The full and the compact   *)
(* list have the same length.                                              *)
C21_KanaLabels ==
  /\ Len(statusBar.kanaGroupNamesFull) = Len(statusBar.kanaGroupNamesCompact)
  /\ IF everyGroupSelected
     THEN /\ Len(statusBar.kanaGroupNamesFull) >= 1
          /\ statusBar.kanaGroupNamesFull[1] = "all kana"
          /\ statusBar.kanaGroupNamesCompact[1] = "all kana"
          /\ \A k \in 2..Len(statusBar.kanaGroupNamesFull) :
               statusBar.kanaGroupNamesFull[k] # "all kana"
          /\ \A i \in nonChallengeIndices :
               /\ fullEntry(i) \notin entriesOf(statusBar.kanaGroupNamesFull)
               /\ compactEntry(i) \notin entriesOf(statusBar.kanaGroupNamesCompact)
          /\ Tail(statusBar.kanaGroupNamesFull)
               = [k \in 1..Len(SelectSeq(kanaGroupIndices, isChallengeIndex)) |->
                    fullEntry(SelectSeq(kanaGroupIndices, isChallengeIndex)[k])]
     ELSE /\ statusBar.kanaGroupNamesFull
               = [k \in 1..Len(kanaGroupIndices) |-> fullEntry(kanaGroupIndices[k])]
          /\ statusBar.kanaGroupNamesCompact
               = [k \in 1..Len(kanaGroupIndices) |-> compactEntry(kanaGroupIndices[k])]

(* C21 witness: both ordinary groups, the challenge group and an index     *)
(* outside the table are selected                                          *)
C21_Witness ==
  /\ everyGroupSelected
  /\ \E k \in 1..Len(kanaGroupIndices) : kanaGroupIndices[k] = MaxGroupIndex
  /\ statusBar.kanaGroupNamesFull = <<"all kana", "nu-group (challenge)">>
  /\ statusBar.kanaGroupNamesCompact = <<"all kana", "nu">>

(* C22: the labels of the timed challenge are, entry for entry, the full   *)
(* labels of the selection status bar.                                     *)
C22_ChallengeLabelsAreBarLabels ==
  timedChallenge # <<>> => timedChallenge[1] = statusBar.kanaGroupNamesFull

(* C22 witness: the timed challenge shows a selection of an index outside  *)
(* the table, an ordinary group and the challenge group                    *)
C22_Witness ==
  /\ timedChallenge = << <<"Group 4", "a-group", "nu-group (challenge)">> >>
  /\ statusBar.kanaGroupNamesFull = <<"Group 4", "a-group", "nu-group (challenge)">>


(* C23: a press of the clear button empties the selection of the current   *)
(* content type and nothing else.  On kana the store is left as            *)
(* addKanaGroupIndices leaves it when given the selected indices, which is *)
(* with no group selected; on kanji the selected sets and kanji are        *)
(* cleared; on any other page the selected sets and words.  The bar is     *)
(* hidden afterwards and the stores of the other content types are as      *)
(* they were.                                                              *)
C23_ClearEmptiesCurrentTypeOnly ==
  [][PressClear =>
       /\ ~statusBar'.visible
       /\ contentType' = contentType
       /\ IF contentType = "kana"
          THEN /\ kanaGroupIndices'
                    = addKanaGroupIndices(kanaGroupIndices, kanaGroupIndices)
               /\ kanaGroupIndices' = <<>>
               /\ UNCHANGED <<selectedKanjiSets, selectedKanjiObjs,
                              selectedVocabSets, selectedVocabObjs>>
          ELSE IF contentType = "kanji"
          THEN /\ selectedKanjiSets' = <<>> /\ selectedKanjiObjs' = {}
               /\ UNCHANGED <<kanaGroupIndices, selectedVocabSets, selectedVocabObjs>>
          ELSE /\ selectedVocabSets' = <<>> /\ selectedVocabObjs' = {}
               /\ UNCHANGED <<kanaGroupIndices, selectedKanjiSets, selectedKanjiObjs>>]_vars

(* C23 witness: the kana selection has just been cleared while sets of     *)
(* kanji and of vocabulary are selected                                    *)
C23_Witness ==
  /\ call.op = "handleClear" /\ call.id = "kana"
  /\ contentType = "kana"
  /\ kanaGroupIndices = <<>>
  /\ ~statusBar.visible
  /\ Len(selectedKanjiSets) = MaxSetNumber /\ selectedKanjiObjs = SetNames
  /\ Len(selectedVocabSets) > 0 /\ selectedVocabObjs # {}

=============================================================================
